---- MODULE Spec2Model ----
(***************************************************************************)
(* Model of the Local-Pi-Assistant orchestration core.                      *)
(*                                                                         *)
(*   - the Task Store (src/autonomous/task_queue.py): the tasks table, the  *)
(*     task_log table, and every operation of TaskQueue;                    *)
(*   - the Heartbeat Scheduler (src/autonomous/heartbeat.py): the tick, the *)
(*     execution of one task, the pause / resume protocol driven by /chat.  *)
(*                                                                         *)
(* Time is the wall clock in seconds.  datetime.now().isoformat() strings   *)
(* compare like the instants they denote, so timestamps are integers; NULL  *)
(* is -1.  created_at has microsecond resolution and every add() commits    *)
(* before the next one starts, so two rows created in the same model        *)
(* instant are still ordered by insertion: "ORDER BY created_at" compares   *)
(* (created_at, id).                                                        *)
(***************************************************************************)
EXTENDS Integers, Sequences, FiniteSets, TLC

VARIABLES
    tasks,      \* the tasks table: a sequence of rows, row i has id = i
    task_log,   \* the task_log table: a sequence of [task_id, event]
    now,        \* the wall clock, seconds
    calls,      \* number of steps taken so far: store calls and clock advances
    lastCall,   \* the most recent Task Store call: [op, id, ret]
    got,        \* the list returned by the most recent get_all()
    scn,        \* position and locals of a scripted call sequence
    _paused,            \* HeartbeatLoop._paused
    _pause_until,       \* HeartbeatLoop._pause_until, NULL for None
    _current_task_id,   \* HeartbeatLoop._current_task_id, 0 for None
    hb,         \* the heartbeat coroutine: its position and locals
    chat,       \* the request side: /chat streams in progress, calls made
    ex,         \* one run of a tool-use loop: its position and locals
    turn,       \* one user turn: run_agent of the CLI or /chat of the server
    sink,       \* the broadcast sink: its subscriber queues
    pipe,       \* the pre-pipeline: its one-slot cache and its calls
    proc        \* the coroutines and threads of a scenario: their positions

hbVars == <<_paused, _pause_until, _current_task_id, hb, chat>>
drvVars == <<calls, lastCall, got, scn>>
usrVars == <<turn, sink, pipe, proc>>
vars == <<tasks, task_log, now, calls, lastCall, got, scn,
          _paused, _pause_until, _current_task_id, hb, chat, ex,
          turn, sink, pipe, proc>>

----------------------------------------------------------------------------
(* Bounds of the model *)

MaxCalls == 3

----------------------------------------------------------------------------
(* Program constants *)

NULL == -1

USER_PAUSE_COOLDOWN == 30
HEARTBEAT_INTERVAL == 300

PriorityNames == {"critical", "high", "normal", "low", "idle"}

PRIORITIES(name) ==
    CASE name = "critical" -> 0
      [] name = "high"     -> 1
      [] name = "normal"   -> 2
      [] name = "low"      -> 3
      [] name = "idle"     -> 4

\* PRIORITIES.get(priority_name, 2)
priority_of(name) == IF name \in PriorityNames THEN PRIORITIES(name) ELSE 2

_in_hours(n, t) == t + n * 3600

Statuses == {"pending", "running", "done", "failed", "cancelled"}
Terminal == {"done", "failed", "cancelled"}

----------------------------------------------------------------------------
(* The Task Store: each operation as a function of the table it updates *)

Ids(T) == 1 .. Len(T)

_log(L, task_id, event) == Append(L, [task_id |-> task_id, event |-> event])

\* INSERT INTO tasks ... VALUES (..., 'pending', now, scheduled_at or now, ...)
add_row(priority_name, scheduled_at, max_retries, t) ==
    [ priority      |-> priority_of(priority_name),
      priority_name |-> priority_name,
      status        |-> "pending",
      created_at    |-> t,
      scheduled_at  |-> IF scheduled_at = NULL THEN t ELSE scheduled_at,
      started_at    |-> NULL,
      completed_at  |-> NULL,
      result_summary |-> "",
      retry_count   |-> 0,
      max_retries   |-> max_retries ]

add(T, priority_name, scheduled_at, max_retries, t) ==
    Append(T, add_row(priority_name, scheduled_at, max_retries, t))

\* UPDATE tasks SET status='running', started_at=? WHERE id=?
\* (every row whose id matches, whatever its status)
start(T, task_id, t) ==
    [i \in DOMAIN T |->
        IF i = task_id
        THEN [T[i] EXCEPT !.status = "running", !.started_at = t]
        ELSE T[i]]

complete(T, task_id, result_summary, t) ==
    [i \in DOMAIN T |->
        IF i = task_id
        THEN [T[i] EXCEPT !.status = "done", !.completed_at = t,
                          !.result_summary = result_summary]
        ELSE T[i]]

\* variant: the same delay for every retry, no exponential growth
delay_minutes_flat(retry_count) == 5

delay_minutes(retry_count) == 5 * (2 ^ retry_count)

timedelta_minutes(m) == m * 60

\* variant: retries while retry_count <= max_retries, one retry too many
fail_retries_inclusive(T, task_id) ==
    task_id \in Ids(T) /\ T[task_id].retry_count <= T[task_id].max_retries

\* fail(): the branch taken is decided by the row read first.  The SELECT and
\* the UPDATE are one step: no other operation writes retry_count or
\* max_retries, and the UPDATE sets the status whatever it finds.
fail_retries(T, task_id) ==
    task_id \in Ids(T) /\ T[task_id].retry_count < T[task_id].max_retries

fail(T, task_id, t) ==
    [i \in DOMAIN T |->
        IF i # task_id THEN T[i]
        ELSE IF fail_retries(T, task_id)
        THEN [T[i] EXCEPT !.status = "pending",
                          !.retry_count = T[i].retry_count + 1,
                          !.scheduled_at =
                              t + timedelta_minutes(delay_minutes(T[i].retry_count))]
        ELSE [T[i] EXCEPT !.status = "failed", !.completed_at = t,
                          !.result_summary = "FAILED"]]

fail_log(T, L, task_id) ==
    IF task_id \notin Ids(T) THEN L
    ELSE IF fail_retries(T, task_id) THEN _log(L, task_id, "retry_scheduled")
    ELSE _log(L, task_id, "failed")

cancel_row(r, t) == [r EXCEPT !.status = "cancelled", !.completed_at = t]

cancel(T, task_id, t) ==
    [i \in DOMAIN T |-> IF i = task_id THEN cancel_row(T[i], t) ELSE T[i]]

reschedule(T, task_id, when) ==
    [i \in DOMAIN T |->
        IF i = task_id
        THEN [T[i] EXCEPT !.status = "pending", !.scheduled_at = when]
        ELSE T[i]]

\* variant: the paused rows start over with retry_count = 0
pause_running_fresh(T) ==
    [i \in DOMAIN T |->
        IF T[i].status = "running"
        THEN [T[i] EXCEPT !.status = "pending", !.started_at = NULL,
                          !.retry_count = 0]
        ELSE T[i]]

\* UPDATE tasks SET status='pending', started_at=NULL WHERE status='running'
pause_running(T) ==
    [i \in DOMAIN T |->
        IF T[i].status = "running"
        THEN [T[i] EXCEPT !.status = "pending", !.started_at = NULL]
        ELSE T[i]]

\* variant: the COUNT(*) query with the wrong status literal
pending_count_running(T) ==
    Cardinality({i \in Ids(T) : T[i].status = "running"})

pending_count(T) == Cardinality({i \in Ids(T) : T[i].status = "pending"})

\* variant: ORDER BY priority ASC, created_at DESC, the newest row first
before_asc_newest(T, i, j) ==
    \/ T[i].priority < T[j].priority
    \/ /\ T[i].priority = T[j].priority
       /\ \/ T[i].created_at > T[j].created_at
          \/ T[i].created_at = T[j].created_at /\ i > j

\* ORDER BY priority ASC, created_at ASC: does row i come before row j
before_asc(T, i, j) ==
    \/ T[i].priority < T[j].priority
    \/ /\ T[i].priority = T[j].priority
       /\ \/ T[i].created_at < T[j].created_at
          \/ T[i].created_at = T[j].created_at /\ i < j

\* WHERE status='pending' AND scheduled_at <= now
eligible(T, i, t) == T[i].status = "pending" /\ T[i].scheduled_at <= t

\* next_pending(): the id of the selected row, 0 for None
next_pending(T, t) ==
    LET E == {i \in Ids(T) : eligible(T, i, t)}
    IN  IF E = {} THEN 0
        ELSE CHOOSE i \in E : \A j \in E \ {i} : before_asc(T, i, j)

\* ORDER BY priority ASC, created_at DESC (get_all without a status)
before_desc(T, i, j) ==
    \/ T[i].priority < T[j].priority
    \/ /\ T[i].priority = T[j].priority
       /\ \/ T[i].created_at > T[j].created_at
          \/ T[i].created_at = T[j].created_at /\ i > j

GET_ALL_LIMIT == 50

\* variant: LIMIT limit - 1, one row short
get_all_short(T, status, limit) ==
    LET S == IF status = "" THEN Ids(T)
             ELSE {i \in Ids(T) : T[i].status = status}
        before(i, j) == IF status = "" THEN before_desc(T, i, j)
                        ELSE before_asc(T, i, j)
        ordered == [k \in 1 .. Cardinality(S) |->
                       CHOOSE i \in S :
                           Cardinality({j \in S : before(j, i)}) = k - 1]
    IN  IF Len(ordered) <= limit - 1 THEN ordered
        ELSE SubSeq(ordered, 1, limit - 1)

\* get_all(status, limit): the ids of the returned rows, in order; "" is
\* status=None
get_all(T, status, limit) ==
    LET S == IF status = "" THEN Ids(T)
             ELSE {i \in Ids(T) : T[i].status = status}
        before(i, j) == IF status = "" THEN before_desc(T, i, j)
                        ELSE before_asc(T, i, j)
        ordered == [k \in 1 .. Cardinality(S) |->
                       CHOOSE i \in S :
                           Cardinality({j \in S : before(j, i)}) = k - 1]
    IN  IF Len(ordered) <= limit THEN ordered ELSE SubSeq(ordered, 1, limit)

----------------------------------------------------------------------------
(* Construction: TaskQueue.__init__ seeds an empty table *)

_seed_initial_tasks(t) ==
    LET s1 == add(<< >>, "high",   NULL, 2, t)
        s2 == add(s1,    "normal", NULL, 2, t)
        s3 == add(s2,    "normal", NULL, 2, t)
        s4 == add(s3,    "low",    NULL, 2, t)
        s5 == add(s4,    "low",    _in_hours(2, t), 2, t)
    IN  s5

seed_log == [i \in 1 .. 5 |-> [task_id |-> i, event |-> "created"]]

NoCall == [op |-> "none", id |-> 0, ret |-> 0]

NoScn == [pc |-> "off", id |-> 0, m |-> 0, nfail |-> 0, at |-> 0]

HbIdle == [pc |-> "sleep", task_id |-> 0, tool_count |-> 0, output |-> "",
           new_tasks |-> 0, start_time |-> NULL, ticks |-> 0, replies |-> 0,
           events |-> << >>, items |-> << >>, added |-> 0, err |-> "none",
           timed_out |-> FALSE]

NoChat == [active |-> 0, started |-> 0, api |-> 0, clock |-> 0]

NoResult == [output |-> "", success |-> FALSE, tool_calls |-> 0, model |-> "",
             failure_reason |-> ""]

ExOff == [loop |-> "none", pc |-> "off", model |-> "", escalation_target |-> "",
          tool_calls |-> 0, executed |-> 0, nudges |-> 0, last_reply |-> "",
          observation |-> "",
          escalate_seen |-> FALSE, result |-> NoResult, model_used |-> ""]

\* no user turn yet: an empty interactions table
TurnOff == [entry |-> "none", pc |-> "off", raw |-> << >>, msg |-> << >>,
            category |-> "",
            model |-> "", models_to_try |-> << >>, attempt |-> 0,
            current_model |-> "", has_result |-> FALSE, result |-> NoResult,
            outcome |-> "none", prev |-> "none", final |-> "",
            interactions |-> << >>, reply |-> "none", invoked |-> FALSE]

\* a connection of GET /events that was not opened yet
NoSubscriber == [state |-> "none", joined |-> 0, q |-> << >>, read |-> << >>,
                 missed |-> 0]

\* server.py: _broadcast_queues = set(), no event sent yet
SinkOff == [subs |-> << >>, sent |-> 0]

\* None where a text is expected: a value that is no message
None == <<"None">>

\* no dict of the pre-pipeline
NoPre == [category |-> "-", rewritten |-> "-", facts |-> "-",
          _source |-> "-"]

\* no call of the pre-pipeline
NoPipeCall == [fn |-> "none", msg |-> None, ret |-> NoPre, before |-> 0,
               after |-> 0]

\* pipeline_pre.py: _last_pre = None, _last_input = None; no call made, the
\* model not yet invoked
PipeOff == [_last_input |-> None, _last_pre |-> NoPre, generate |-> 0,
            calls |-> 0, prev |-> NoPipeCall, last |-> NoPipeCall]

\* no coroutine or thread of a scenario exists
ProcOff == [scenario |-> "none"]

UserInit ==
    /\ turn = TurnOff
    /\ sink = SinkOff
    /\ pipe = PipeOff
    /\ proc = ProcOff

\* HeartbeatLoop.__init__
HeartbeatInit ==
    /\ _paused = FALSE
    /\ _pause_until = NULL
    /\ _current_task_id = 0
    /\ hb = HbIdle
    /\ chat = NoChat

DriverInit ==
    /\ calls = 0
    /\ lastCall = NoCall
    /\ got = << >>
    /\ scn = NoScn

StoreInit ==
    /\ now = 0
    /\ tasks = _seed_initial_tasks(0)
    /\ task_log = seed_log
    /\ DriverInit
    /\ HeartbeatInit
    /\ ex = ExOff
    /\ UserInit

----------------------------------------------------------------------------
(* The Task Store driven through its public operations, one call per step *)

AddPriorityNames == {"critical", "urgent"}
AddMaxRetries == {-1, 0, 2}

\* ids a caller passes: the first row, the newest row, and an id that matches no row
CallIds == {1, Len(tasks), Len(tasks) + 1}

Called(op, id, ret) ==
    /\ calls < MaxCalls
    /\ calls' = calls + 1
    /\ lastCall' = [op |-> op, id |-> id, ret |-> ret]

Tick ==
    /\ Called("tick", 0, 0)
    /\ now' = now + HEARTBEAT_INTERVAL
    /\ UNCHANGED <<tasks, task_log, got, scn, hbVars, ex, usrVars>>

Add ==
    /\ \E pn \in AddPriorityNames, mr \in AddMaxRetries,
          sa \in {NULL, now + HEARTBEAT_INTERVAL} :
          /\ tasks' = add(tasks, pn, sa, mr, now)
          /\ task_log' = _log(task_log, Len(tasks) + 1, "created")
          /\ Called("add", Len(tasks) + 1, Len(tasks) + 1)
    /\ UNCHANGED <<now, got, scn, hbVars, ex, usrVars>>

NextPending ==
    /\ Called("next_pending", 0, next_pending(tasks, now))
    /\ UNCHANGED <<tasks, task_log, now, got, scn, hbVars, ex, usrVars>>

Start ==
    /\ \E id \in CallIds :
          /\ tasks' = start(tasks, id, now)
          /\ task_log' = _log(task_log, id, "started")
          /\ Called("start", id, 0)
    /\ UNCHANGED <<now, got, scn, hbVars, ex, usrVars>>

Complete ==
    /\ \E id \in CallIds :
          /\ tasks' = complete(tasks, id, "ok", now)
          /\ task_log' = _log(task_log, id, "completed")
          /\ Called("complete", id, 0)
    /\ UNCHANGED <<now, got, scn, hbVars, ex, usrVars>>

Fail ==
    /\ \E id \in CallIds :
          /\ tasks' = fail(tasks, id, now)
          /\ task_log' = fail_log(tasks, task_log, id)
          /\ Called("fail", id, 0)
    /\ UNCHANGED <<now, got, scn, hbVars, ex, usrVars>>

Cancel ==
    /\ \E id \in CallIds :
          /\ tasks' = cancel(tasks, id, now)
          /\ task_log' = _log(task_log, id, "cancelled")
          /\ Called("cancel", id, 0)
    /\ UNCHANGED <<now, got, scn, hbVars, ex, usrVars>>

Reschedule ==
    /\ \E id \in CallIds, when \in {now, now + HEARTBEAT_INTERVAL} :
          /\ tasks' = reschedule(tasks, id, when)
          /\ task_log' = _log(task_log, id, "rescheduled")
          /\ Called("reschedule", id, 0)
    /\ UNCHANGED <<now, got, scn, hbVars, ex, usrVars>>

PauseRunning ==
    /\ tasks' = pause_running(tasks)
    /\ Called("pause_running", 0, 0)
    /\ UNCHANGED <<task_log, now, got, scn, hbVars, ex, usrVars>>

StoreNext ==
    \/ Tick
    \/ Add
    \/ NextPending
    \/ Start
    \/ Complete
    \/ Fail
    \/ Cancel
    \/ Reschedule
    \/ PauseRunning

SpecStore == StoreInit /\ [][StoreNext]_vars

----------------------------------------------------------------------------
(* Properties of the Task Store, checked under SpecStore *)

\* the row the step just taken was called on exists
OnRow(op) == lastCall'.op = op /\ lastCall'.id \in Ids(tasks)

\* C3: once a task's status is done, failed or cancelled, no Task Store
\* operation changes its status again.
C3_TerminalIsFinal ==
    [][\A i \in Ids(tasks) :
          tasks[i].status \in Terminal => tasks'[i].status = tasks[i].status]_vars

\* C4: start(id) on a row whose status is not pending changes nothing.
C4_StartOnlyFromPending ==
    [][(OnRow("start") /\ tasks[lastCall'.id].status # "pending")
          => tasks' = tasks]_vars

\* C5: in every reachable state of the store, retry_count <= max_retries
\* for every task.
C5_RetryCountBounded ==
    \A i \in Ids(tasks) : tasks[i].retry_count <= tasks[i].max_retries

\* C6: fail(id) on a task with retry_count < max_retries sets status pending,
\* adds exactly 1 to retry_count and schedules the task 5 * 2^retry_count
\* minutes after the call (300 s, 600 s, 1200 s), which is strictly later than
\* the call, so next_pending() at the time of the call does not select it;
\* otherwise fail sets status failed.
C6_ExpectedDelay(rc) ==
    CASE rc = 0 -> 300
      [] rc = 1 -> 600
      [] rc = 2 -> 1200
      [] OTHER  -> 0

C6_FailRetriesWithBackoff ==
    [][OnRow("fail") =>
          LET id == lastCall'.id
              r  == tasks[id]
              q  == tasks'[id]
          IN  IF r.retry_count < r.max_retries
              THEN /\ q.status = "pending"
                   /\ q.retry_count = r.retry_count + 1
                   /\ q.scheduled_at = now + C6_ExpectedDelay(r.retry_count)
                   /\ q.scheduled_at > now
                   /\ ~eligible(tasks', id, now')
                   /\ next_pending(tasks', now') # id
              ELSE q.status = "failed"]_vars

C6_Witness ==
    /\ lastCall.op = "fail"
    /\ lastCall.id \in Ids(tasks)
    /\ tasks[lastCall.id].status = "pending"
    /\ tasks[lastCall.id].retry_count = 2
    /\ tasks[lastCall.id].scheduled_at = now + 600

\* C8: next_pending() returns the eligible task (pending, scheduled_at <= now)
\* with the smallest priority value, the oldest first among equal priorities,
\* and nothing when no task is eligible; that task is unique; no row and no
\* log entry changes.
C8_IsFirst(r, E) ==
    \A j \in E \ {r} :
        \/ tasks[r].priority < tasks[j].priority
        \/ /\ tasks[r].priority = tasks[j].priority
           /\ \/ tasks[r].created_at < tasks[j].created_at
              \/ tasks[r].created_at = tasks[j].created_at /\ r < j

C8_NextPendingSelects ==
    [][lastCall'.op = "next_pending" =>
          LET r == lastCall'.ret
              E == {i \in Ids(tasks) :
                       tasks[i].status = "pending" /\ tasks[i].scheduled_at <= now}
          IN  /\ tasks' = tasks
              /\ task_log' = task_log
              /\ (r = 0) <=> (E = {})
              /\ r # 0 => /\ r \in E
                          /\ C8_IsFirst(r, E)
                          /\ \A k \in E : C8_IsFirst(k, E) => k = r]_vars

C8_Witness ==
    /\ lastCall.op = "next_pending"
    /\ lastCall.ret = 2
    /\ tasks[1].status # "pending"
    /\ tasks[3].status = "pending" /\ tasks[3].scheduled_at <= now
    /\ tasks[5].status = "pending" /\ tasks[5].scheduled_at > now

\* C9: every step that changes or creates a task row writes exactly one
\* task_log entry for that task, and a step that changes no row writes none.
C9_NewEntries(i) ==
    Cardinality({k \in (Len(task_log) + 1) .. Len(task_log') :
                    task_log'[k].task_id = i})

C9_Changed(i) == i \notin Ids(tasks) \/ tasks'[i] # tasks[i]

C9_OneLogEntryPerChange ==
    [][/\ \A i \in Ids(tasks') : C9_Changed(i) => C9_NewEntries(i) = 1
       /\ tasks' = tasks => task_log' = task_log]_vars

----------------------------------------------------------------------------
(* Retry with backoff: add(max_retries = m), then fail(id) again and again,  *)
(* the clock advancing between the calls                                    *)

MaxRetriesArg == 3
MaxRetryClock == 3

RetryInit ==
    /\ now = 0
    /\ tasks = _seed_initial_tasks(0)
    /\ task_log = seed_log
    /\ calls = 0
    /\ lastCall = NoCall
    /\ got = << >>
    /\ scn = [NoScn EXCEPT !.pc = "add"]
    /\ HeartbeatInit
    /\ ex = ExOff
    /\ UserInit

RetryAdd ==
    /\ scn.pc = "add"
    /\ \E m \in 0 .. MaxRetriesArg :
          /\ tasks' = add(tasks, "normal", NULL, m, now)
          /\ scn' = [scn EXCEPT !.pc = "fail", !.id = Len(tasks) + 1, !.m = m]
    /\ task_log' = _log(task_log, Len(tasks) + 1, "created")
    /\ lastCall' = [op |-> "add", id |-> Len(tasks) + 1, ret |-> Len(tasks) + 1]
    /\ UNCHANGED <<now, calls, got, hbVars, ex, usrVars>>

\* one more call than it takes to fail the task for good
RetryFail ==
    /\ scn.pc = "fail"
    /\ scn.nfail < scn.m + 2
    /\ tasks' = fail(tasks, scn.id, now)
    /\ task_log' = fail_log(tasks, task_log, scn.id)
    /\ scn' = [scn EXCEPT !.nfail = @ + 1, !.at = now]
    /\ lastCall' = [op |-> "fail", id |-> scn.id, ret |-> 0]
    /\ UNCHANGED <<now, calls, got, hbVars, ex, usrVars>>

RetryTick ==
    /\ now < MaxRetryClock * HEARTBEAT_INTERVAL
    /\ now' = now + HEARTBEAT_INTERVAL
    /\ UNCHANGED <<tasks, task_log, drvVars, hbVars, ex, usrVars>>

RetryNext ==
    \/ RetryAdd
    \/ RetryFail
    \/ RetryTick

SpecRetry == RetryInit /\ [][RetryNext]_vars

\* C7: a task added with max_retries = m becomes failed on the (m+1)-th fail
\* call and not earlier; the k-th call before that leaves it pending with
\* retry_count = k, scheduled 5 * 2^(k-1) minutes after that call (300 s after
\* the first, 600 s after the second).
C7_DelayOfCall(k) ==
    CASE k = 1 -> 300
      [] k = 2 -> 600
      [] k = 3 -> 1200
      [] k = 4 -> 2400
      [] k = 5 -> 4800
      [] OTHER -> 0

C7_FailedOnCallMPlus1 ==
    scn.pc = "fail" =>
        LET r == tasks[scn.id]
        IN  /\ (r.status = "failed") <=> (scn.nfail >= scn.m + 1)
            /\ scn.nfail <= scn.m =>
                  /\ r.status = "pending"
                  /\ r.retry_count = scn.nfail
                  /\ scn.nfail >= 1 =>
                        r.scheduled_at = scn.at + C7_DelayOfCall(scn.nfail)

C7_Witness ==
    /\ scn.pc = "fail" /\ scn.m = 2 /\ scn.nfail = 3
    /\ tasks[scn.id].status = "failed"
    /\ tasks[scn.id].retry_count = 2
    /\ tasks[scn.id].scheduled_at = 600 + 600

----------------------------------------------------------------------------
(* Round trip: on a store that already holds cancelled rows, add(...), then  *)
(* cancel(id), then get_all(status = "cancelled")                           *)

MaxBulk == 46

\* the store after the seed rows were cancelled and n more rows were added
\* with priority critical and cancelled, all at time 0
bulk_cancelled(n) ==
    LET seeds == _seed_initial_tasks(0)
    IN  [i \in 1 .. (5 + n) |->
            IF i <= 5 THEN cancel_row(seeds[i], 0)
            ELSE cancel_row(add_row("critical", NULL, 2, 0), 0)]

bulk_log(n) ==
    [k \in 1 .. (10 + 2 * n) |->
        IF k <= 5 THEN [task_id |-> k, event |-> "created"]
        ELSE IF k <= 10 THEN [task_id |-> k - 5, event |-> "cancelled"]
        ELSE [task_id |-> 5 + (k - 9) \div 2,
              event |-> IF (k - 9) % 2 = 0 THEN "created" ELSE "cancelled"]]

RoundTripInit ==
    /\ now = 0
    /\ \E n \in 0 .. MaxBulk :
          /\ tasks = bulk_cancelled(n)
          /\ task_log = bulk_log(n)
    /\ calls = 0
    /\ lastCall = NoCall
    /\ got = << >>
    /\ scn = [NoScn EXCEPT !.pc = "rt_add"]
    /\ HeartbeatInit
    /\ ex = ExOff
    /\ UserInit

RoundTripAdd ==
    /\ scn.pc = "rt_add"
    /\ \E pn \in {"critical", "idle"} :
          tasks' = add(tasks, pn, NULL, 2, now)
    /\ task_log' = _log(task_log, Len(tasks) + 1, "created")
    /\ scn' = [scn EXCEPT !.pc = "rt_cancel", !.id = Len(tasks) + 1]
    /\ lastCall' = [op |-> "add", id |-> Len(tasks) + 1, ret |-> Len(tasks) + 1]
    /\ UNCHANGED <<now, calls, got, hbVars, ex, usrVars>>

RoundTripCancel ==
    /\ scn.pc = "rt_cancel"
    /\ tasks' = cancel(tasks, scn.id, now)
    /\ task_log' = _log(task_log, scn.id, "cancelled")
    /\ scn' = [scn EXCEPT !.pc = "rt_get_all"]
    /\ lastCall' = [op |-> "cancel", id |-> scn.id, ret |-> 0]
    /\ UNCHANGED <<now, calls, got, hbVars, ex, usrVars>>

RoundTripGetAll ==
    /\ scn.pc = "rt_get_all"
    /\ got' = get_all(tasks, "cancelled", GET_ALL_LIMIT)
    /\ scn' = [scn EXCEPT !.pc = "rt_done"]
    /\ lastCall' = [op |-> "get_all", id |-> 0, ret |-> 0]
    /\ UNCHANGED <<tasks, task_log, now, calls, hbVars, ex, usrVars>>

RoundTripTick ==
    /\ now < HEARTBEAT_INTERVAL
    /\ scn.pc # "rt_done"
    /\ now' = now + HEARTBEAT_INTERVAL
    /\ UNCHANGED <<tasks, task_log, drvVars, hbVars, ex, usrVars>>

RoundTripNext ==
    \/ RoundTripAdd
    \/ RoundTripCancel
    \/ RoundTripGetAll
    \/ RoundTripTick

SpecRoundTrip == RoundTripInit /\ [][RoundTripNext]_vars

C10_Occurrences == Cardinality({k \in 1 .. Len(got) : got[k] = scn.id})

C10_Cancelled == {i \in Ids(tasks) : tasks[i].status = "cancelled"}

\* C10 as stated: after add, cancel(id) and get_all(status = "cancelled"), the
\* returned list contains the row with that id exactly once.
C10_ListedExactlyOnce == scn.pc = "rt_done" => C10_Occurrences = 1

\* C10 as amended: the returned list never contains the row more than once,
\* and contains it exactly once whenever the store holds at most 50 (the
\* default limit of get_all) cancelled rows.
C10_ListedOnceWithinLimit ==
    scn.pc = "rt_done" =>
        /\ C10_Occurrences <= 1
        /\ Cardinality(C10_Cancelled) <= 50 => C10_Occurrences = 1

C10_Witness ==
    /\ scn.pc = "rt_done"
    /\ Cardinality(C10_Cancelled) = 50
    /\ tasks[scn.id].priority_name = "idle"
    /\ got[50] = scn.id

----------------------------------------------------------------------------
(* The Heartbeat Scheduler with the request side: /chat pausing and resuming *)
(* it, DELETE /tasks/{id} cancelling rows, and the clock                    *)

MaxTicks == 2
MaxReplies == 2
MaxChats == 1
MaxApi == 1
MaxHbClock == 1

MAX_TASK_DURATION == 600
max_tools == 12

\* is_paused()
is_paused_flag_only(paused, pause_until, t) == paused

is_paused(paused, pause_until, t) ==
    IF pause_until # NULL /\ t < pause_until THEN TRUE ELSE paused

\* _notify(event_type, ...): broadcast() puts the event on every listener's
\* queue without suspending, so the event is out when the call returns
_notify(h, event_type) == [h EXCEPT !.events = Append(@, event_type)]

\* the head of the while loop of _run_task_model, reached without an await
\* from the end of the previous iteration: a pc of "chat" is a call of
\* ollama.chat with the background model, started at this point
loop_head(h, paused) ==
    IF h.tool_count < max_tools
    THEN IF paused
         THEN [h EXCEPT !.pc = "complete", !.output = "Task paused",
                        !.new_tasks = 0]
         ELSE [h EXCEPT !.pc = "chat"]
    ELSE [h EXCEPT !.pc = "complete", !.output = "exhausted", !.new_tasks = 0]

\* the store as a restarted server finds it: the first k seed rows done
seeds_done(k) ==
    LET seeds == _seed_initial_tasks(0)
    IN  [i \in 1 .. 5 |->
            IF i <= k
            THEN [seeds[i] EXCEPT !.status = "done", !.started_at = 0,
                                  !.completed_at = 0, !.result_summary = "final"]
            ELSE seeds[i]]

seeds_done_log(k) ==
    [j \in 1 .. (5 + 2 * k) |->
        IF j <= 5 THEN [task_id |-> j, event |-> "created"]
        ELSE [task_id |-> (j - 4) \div 2,
              event |-> IF (j - 4) % 2 = 0 THEN "started" ELSE "completed"]]

HbInit ==
    /\ now = 0
    /\ \E k \in {0, 4} :
          /\ tasks = seeds_done(k)
          /\ task_log = seeds_done_log(k)
    /\ DriverInit
    /\ HeartbeatInit
    /\ ex = ExOff
    /\ UserInit

\* _tick up to its first await: the events of the previous tick are history
HB_Tick ==
    /\ hb.pc = "sleep"
    /\ hb.ticks < MaxTicks
    /\ LET h == [hb EXCEPT !.ticks = @ + 1, !.task_id = 0, !.events = << >>,
                           !.items = << >>, !.added = 0, !.err = "none",
                           !.timed_out = FALSE]
       IN  hb' = IF is_paused(_paused, _pause_until, now)
                 THEN _notify(h, "idle")
                 ELSE [h EXCEPT !.pc = "next_pending"]
    /\ UNCHANGED <<tasks, task_log, now, drvVars, ex, usrVars,
                   _paused, _pause_until, _current_task_id, chat>>

\* queue.next_pending in its thread, then _execute_task up to start
HB_NextPending ==
    /\ hb.pc = "next_pending"
    /\ LET task == next_pending(tasks, now)
       IN  hb' = IF task = 0
                 THEN [hb EXCEPT !.pc = "pending_count"]
                 ELSE _notify([hb EXCEPT !.pc = "start", !.task_id = task,
                                         !.tool_count = 0, !.replies = 0,
                                         !.output = "", !.new_tasks = 0],
                              "working")
    /\ UNCHANGED <<tasks, task_log, now, drvVars, ex, usrVars,
                   _paused, _pause_until, _current_task_id, chat>>

\* queue.pending_count in its thread: idle, or a reflection
HB_PendingCount ==
    /\ hb.pc = "pending_count"
    /\ hb' = IF pending_count(tasks) = 0
             THEN _notify([hb EXCEPT !.pc = "reflect"], "reflecting")
             ELSE _notify([hb EXCEPT !.pc = "sleep"], "idle")
    /\ UNCHANGED <<tasks, task_log, now, drvVars, ex, usrVars,
                   _paused, _pause_until, _current_task_id, chat>>

\* _run_reflection: get_recent_completed, get_context_for_prompt and
\* pending_count return from their threads, and ollama.generate is called
HB_ReflectPrep ==
    /\ hb.pc = "reflect"
    /\ hb' = [hb EXCEPT !.pc = "generate"]
    /\ UNCHANGED <<tasks, task_log, now, drvVars, ex, usrVars,
                   _paused, _pause_until, _current_task_id, chat>>

\* an element of the reflection's JSON array: a dict with a title or not,
\* with a priority_name or not
Unspecified == "unspecified"

has_title(nt) == nt.title

\* nt.get("priority_name", "idle")
reflect_priority_normal(nt) ==
    IF nt.priority_name = Unspecified THEN "normal" ELSE nt.priority_name

reflect_priority(nt) ==
    IF nt.priority_name = Unspecified THEN "idle" ELSE nt.priority_name

\* the end of _run_reflection once every element has been looked at
reflect_done(h) ==
    IF h.items = << >> THEN _notify([h EXCEPT !.pc = "sleep"], "tasks_generated")
    ELSE h

\* the reply of ollama.generate: no JSON array in it (NOLIST: return), an
\* exception or a text json.loads rejects (ERROR: logged), or an array;
\* elements without a title are passed over without an await
reflect_reply(h, r) ==
    IF r.kind # "LIST" THEN [h EXCEPT !.pc = "sleep"]
    ELSE reflect_done([h EXCEPT !.pc = "reflect_add",
                                !.items = SelectSeq(r.items, has_title)])

HbReflectReplies ==
    {[kind |-> "NOLIST", items |-> << >>],
     [kind |-> "ERROR", items |-> << >>],
     [kind |-> "LIST", items |-> << >>],
     [kind |-> "LIST",
      items |-> <<[title |-> TRUE, priority_name |-> Unspecified]>>]}

HB_ReflectReply ==
    /\ hb.pc = "generate"
    /\ \E r \in HbReflectReplies : hb' = reflect_reply(hb, r)
    /\ UNCHANGED <<tasks, task_log, now, drvVars, ex, usrVars,
                   _paused, _pause_until, _current_task_id, chat>>

\* queue.add of one generated task in its thread
HB_ReflectAdd ==
    /\ hb.pc = "reflect_add"
    /\ tasks' = add(tasks, reflect_priority(Head(hb.items)), NULL, 2, now)
    /\ task_log' = _log(task_log, Len(tasks) + 1, "created")
    /\ hb' = reflect_done([hb EXCEPT !.items = Tail(@), !.added = @ + 1])
    /\ UNCHANGED <<now, drvVars, ex, usrVars, _paused, _pause_until, _current_task_id, chat>>

\* queue.start in its thread
HB_Start ==
    /\ hb.pc = "start"
    /\ tasks' = start(tasks, hb.task_id, now)
    /\ task_log' = _log(task_log, hb.task_id, "started")
    /\ hb' = [hb EXCEPT !.pc = "started"]
    /\ UNCHANGED <<now, drvVars, ex, usrVars, _paused, _pause_until, _current_task_id, chat>>

\* the coroutine resumes after start: claims the id, enters _run_task_model
HB_Started ==
    /\ hb.pc = "started"
    /\ _current_task_id' = hb.task_id
    /\ hb' = [hb EXCEPT !.pc = "prep", !.start_time = now]
    /\ UNCHANGED <<tasks, task_log, now, drvVars, ex, usrVars, _paused, _pause_until, chat>>

\* the prompt is built; first pass through the head of the loop
HB_LoopHead ==
    /\ hb.pc = "prep"
    /\ hb' = loop_head(hb, is_paused(_paused, _pause_until, now))
    /\ UNCHANGED <<tasks, task_log, now, drvVars, ex, usrVars,
                   _paused, _pause_until, _current_task_id, chat>>

\* what one reply of ollama.chat does to the loop.  OOM is the ResponseError
\* "out of memory" of the first call, answered at once by the call of the
\* fallback model (pc "fallback"); ERROR is any other exception, and any
\* exception of the fallback call.  BADSKILL is a SKILL whose JSON does not
\* load: a tool call is counted and nothing is run.
chat_reply(h, kind, nt, paused) ==
    CASE kind = "FINAL" ->
             [h EXCEPT !.pc = "complete", !.output = "final", !.new_tasks = nt]
      [] kind = "SKILL" -> _notify([h EXCEPT !.pc = "skill"], "skill_call")
      [] kind = "BADSKILL" ->
             loop_head([h EXCEPT !.tool_count = @ + 1], paused)
      [] kind = "NEITHER" -> loop_head(h, paused)
      [] kind = "OOM" -> [h EXCEPT !.pc = "fallback"]
      [] kind = "ERROR" -> [h EXCEPT !.pc = "fail"]

ReplyKinds == {"FINAL", "SKILL", "BADSKILL", "NEITHER", "ERROR"}

\* ollama.chat returns or raises
HB_ChatReply ==
    /\ hb.pc = "chat"
    /\ hb.replies < MaxReplies
    /\ \E kind \in ReplyKinds \cup {"OOM"},
          nt \in {0, 1} :
          /\ nt = 1 => kind = "FINAL"
          /\ hb' = chat_reply([hb EXCEPT !.replies = @ + 1], kind, nt,
                              is_paused(_paused, _pause_until, now))
    /\ UNCHANGED <<tasks, task_log, now, drvVars, ex, usrVars,
                   _paused, _pause_until, _current_task_id, chat>>

\* ollama.chat with the fallback model returns or raises
HB_FallbackReply ==
    /\ hb.pc = "fallback"
    /\ \E kind \in ReplyKinds :
          hb' = chat_reply(hb, kind, 0, is_paused(_paused, _pause_until, now))
    /\ UNCHANGED <<tasks, task_log, now, drvVars, ex, usrVars,
                   _paused, _pause_until, _current_task_id, chat>>

\* registry.run returns or raises: one tool call either way, then the head
\* of the loop
HB_SkillDone ==
    /\ hb.pc = "skill"
    /\ hb' = loop_head([hb EXCEPT !.tool_count = @ + 1],
                       is_paused(_paused, _pause_until, now))
    /\ UNCHANGED <<tasks, task_log, now, drvVars, ex, usrVars,
                   _paused, _pause_until, _current_task_id, chat>>

\* asyncio.wait_for gives up on _run_task_model
HB_Timeout ==
    /\ hb.pc \in {"prep", "chat", "fallback", "skill"}
    /\ now - hb.start_time >= MAX_TASK_DURATION
    /\ hb' = [hb EXCEPT !.pc = "fail", !.timed_out = TRUE]
    /\ UNCHANGED <<tasks, task_log, now, drvVars, ex, usrVars,
                   _paused, _pause_until, _current_task_id, chat>>

\* queue.complete in its thread, then the task_done event
HB_Complete ==
    /\ hb.pc = "complete"
    /\ tasks' = complete(tasks, hb.task_id, hb.output, now)
    /\ task_log' = _log(task_log, hb.task_id, "completed")
    /\ hb' = _notify([hb EXCEPT !.pc = "post"], "task_done")
    /\ UNCHANGED <<now, drvVars, ex, usrVars, _paused, _pause_until, _current_task_id, chat>>

\* queue.add of one follow-up task
HB_FollowUp ==
    /\ hb.pc = "post"
    /\ hb.new_tasks > 0
    /\ tasks' = add(tasks, "normal", NULL, 2, now)
    /\ task_log' = _log(task_log, Len(tasks) + 1, "created")
    /\ hb' = _notify([hb EXCEPT !.new_tasks = @ - 1], "task_added")
    /\ UNCHANGED <<now, drvVars, ex, usrVars, _paused, _pause_until, _current_task_id, chat>>

\* memory.log_interaction and extract_from_exchange return; finally
HB_Finish ==
    /\ hb.pc = "post"
    /\ hb.new_tasks = 0
    /\ _current_task_id' = 0
    /\ hb' = [hb EXCEPT !.pc = "sleep", !.start_time = NULL]
    /\ UNCHANGED <<tasks, task_log, now, drvVars, ex, usrVars, _paused, _pause_until, chat>>

\* memory.log_interaction or extract_from_exchange raises
HB_PostError ==
    /\ hb.pc = "post"
    /\ hb.new_tasks = 0
    /\ hb' = [hb EXCEPT !.pc = "fail"]
    /\ UNCHANGED <<tasks, task_log, now, drvVars, ex, usrVars,
                   _paused, _pause_until, _current_task_id, chat>>

\* queue.fail in its thread, the task_failed event, then finally
HB_Fail ==
    /\ hb.pc = "fail"
    /\ tasks' = fail(tasks, hb.task_id, now)
    /\ task_log' = fail_log(tasks, task_log, hb.task_id)
    /\ _current_task_id' = 0
    /\ hb' = _notify([hb EXCEPT !.pc = "sleep", !.start_time = NULL],
                     "task_failed")
    /\ UNCHANGED <<now, drvVars, ex, usrVars, _paused, _pause_until, chat>>

\* A Task Store call of the heartbeat raises (sqlite3.Error at its first
\* statement: nothing is written).
\* queue.start raises: the call is outside the try of _execute_task, so the
\* exception leaves _execute_task and _tick, and run() prints it
HB_StartError ==
    /\ hb.pc = "start"
    /\ hb' = [hb EXCEPT !.pc = "sleep", !.err = "start"]
    /\ UNCHANGED <<tasks, task_log, now, drvVars, ex, usrVars,
                   _paused, _pause_until, _current_task_id, chat>>

\* queue.complete raises: caught by except Exception, which calls queue.fail
HB_CompleteError ==
    /\ hb.pc = "complete"
    /\ hb' = [hb EXCEPT !.pc = "fail", !.err = "complete"]
    /\ UNCHANGED <<tasks, task_log, now, drvVars, ex, usrVars,
                   _paused, _pause_until, _current_task_id, chat>>

\* queue.fail raises inside the except clause: finally runs, the exception
\* leaves _execute_task and _tick, and run() prints it
HB_FailError ==
    /\ hb.pc = "fail"
    /\ _current_task_id' = 0
    /\ hb' = [hb EXCEPT !.pc = "sleep", !.start_time = NULL, !.err = "fail"]
    /\ UNCHANGED <<tasks, task_log, now, drvVars, ex, usrVars, _paused, _pause_until, chat>>

\* POST /chat with a message: pause_for_user()
Chat_Begin ==
    /\ chat.started < MaxChats
    /\ chat' = [chat EXCEPT !.started = @ + 1, !.active = @ + 1]
    /\ _paused' = TRUE
    /\ _pause_until' = NULL
    /\ tasks' = IF _current_task_id # 0 THEN pause_running(tasks) ELSE tasks
    /\ _current_task_id' = 0
    /\ UNCHANGED <<task_log, now, drvVars, ex, usrVars, hb>>

\* the end of _chat_stream: resume_after_user()
Chat_End ==
    /\ chat.active > 0
    /\ chat' = [chat EXCEPT !.active = @ - 1]
    /\ _pause_until' = now + USER_PAUSE_COOLDOWN
    /\ _paused' = FALSE
    /\ UNCHANGED <<tasks, task_log, now, drvVars, ex, usrVars, _current_task_id, hb>>

\* DELETE /tasks/{task_id}: on the row a fresh heartbeat claims first, or on
\* the row that is scheduled two hours ahead
ApiCancelIds == {1, 5}

Api_Cancel ==
    /\ chat.api < MaxApi
    /\ \E id \in ApiCancelIds :
          /\ tasks' = cancel(tasks, id, now)
          /\ task_log' = _log(task_log, id, "cancelled")
    /\ chat' = [chat EXCEPT !.api = @ + 1]
    /\ UNCHANGED <<now, drvVars, ex, usrVars, _paused, _pause_until, _current_task_id, hb>>

HB_Clock ==
    /\ chat.clock < MaxHbClock
    /\ chat' = [chat EXCEPT !.clock = @ + 1]
    /\ \E d \in {USER_PAUSE_COOLDOWN, HEARTBEAT_INTERVAL, MAX_TASK_DURATION} :
          now' = now + d
    /\ UNCHANGED <<tasks, task_log, drvVars, ex, usrVars,
                   _paused, _pause_until, _current_task_id, hb>>

HbNext ==
    \/ HB_Tick
    \/ HB_NextPending
    \/ HB_PendingCount
    \/ HB_ReflectPrep
    \/ HB_ReflectReply
    \/ HB_ReflectAdd
    \/ HB_Start
    \/ HB_Started
    \/ HB_LoopHead
    \/ HB_ChatReply
    \/ HB_FallbackReply
    \/ HB_SkillDone
    \/ HB_Timeout
    \/ HB_Complete
    \/ HB_FollowUp
    \/ HB_Finish
    \/ HB_PostError
    \/ HB_Fail
    \/ HB_StartError
    \/ HB_CompleteError
    \/ HB_FailError
    \/ Chat_Begin
    \/ Chat_End
    \/ Api_Cancel
    \/ HB_Clock

SpecHeartbeat == HbInit /\ [][HbNext]_vars

----------------------------------------------------------------------------
(* Properties of a background task execution, checked under SpecHeartbeat *)

\* C1: complete(id) applied to a task row that is no longer running is a
\* no-op: the row keeps the status it had and is not turned into done.
C1_CompleteOnlyWhenRunning ==
    [][(hb.pc = "complete" /\ hb'.pc = "post"
            /\ tasks[hb.task_id].status # "running")
          => tasks'[hb.task_id] = tasks[hb.task_id]]_vars

\* C2: when the execution of a task has returned the partial output
\* "Task paused" after pause_for_user(), and nobody cancelled a task, the row
\* is pending with started_at = NULL (not done or failed), so that a later
\* tick can pick it up again.
C2_PausedTaskStaysPending ==
    (hb.pc = "post" /\ hb.output = "Task paused" /\ chat.api = 0) =>
        /\ tasks[hb.task_id].status = "pending"
        /\ tasks[hb.task_id].started_at = NULL

\* C11: in every reachable state at most one task row has status running.
C11_Running == {i \in Ids(tasks) : tasks[i].status = "running"}

C11_AtMostOneRunning == Cardinality(C11_Running) <= 1

\* C12: while the pause set by pause_for_user() lasts, the heartbeat starts
\* no model call: no chat call of the task loop, no call of the fallback
\* model, no generate call of a reflection.
C12_ModelCallStarts ==
    \/ hb'.pc = "chat" /\ (hb.pc # "chat" \/ hb'.replies # hb.replies)
    \/ hb'.pc = "fallback" /\ hb.pc = "chat"
    \/ hb'.pc = "generate" /\ hb.pc = "reflect"

C12_NoModelCallWhilePaused ==
    [][C12_ModelCallStarts => ~_paused]_vars

\* C13: a tick that runs while the heartbeat is paused (the flag is set, or
\* now < pause_until after resume_after_user()) emits one idle event and
\* returns: no Task Store row or log entry changes, nothing is claimed and no
\* model is called.
C13_Paused == _paused \/ (_pause_until # NULL /\ now < _pause_until)

C13_PausedTickOnlyIdles ==
    [][(hb.pc = "sleep" /\ hb'.ticks # hb.ticks /\ C13_Paused) =>
          /\ hb'.pc = "sleep"
          /\ hb'.events = <<"idle">>
          /\ hb'.task_id = 0
          /\ tasks' = tasks
          /\ task_log' = task_log
          /\ _current_task_id' = _current_task_id]_vars

\* a tick ran during the cooldown after /chat ended, on a store with due tasks
C13_Witness ==
    /\ hb.pc = "sleep"
    /\ hb.ticks = 1
    /\ hb.events = <<"idle">>
    /\ ~_paused
    /\ _pause_until = USER_PAUSE_COOLDOWN
    /\ now < _pause_until
    /\ tasks = seeds_done(0)

\* C14: the events of one task execution come in the order working, then
\* skill_call any number of times, then exactly one of task_done and
\* task_failed, and nothing of these after it.
C14_Terminal == {"task_done", "task_failed"}

C14_TaskEvents == {"working", "skill_call"} \cup C14_Terminal

C14_EventOrder ==
    LET ev == SelectSeq(hb.events, LAMBDA e : e \in C14_TaskEvents)
    IN  ev # << >> =>
          /\ ev[1] = "working"
          /\ \A i \in 2 .. Len(ev) :
                /\ ev[i] # "working"
                /\ ev[i - 1] \notin C14_Terminal
          /\ (hb.pc = "sleep" /\ hb.err = "none") => ev[Len(ev)] \in C14_Terminal

\* C15: when a Task Store call of a task execution (start, complete or fail)
\* has raised, the tick does not end without a task_failed event.
C15_StoreErrorBroadcast ==
    (hb.pc = "sleep" /\ hb.err # "none") =>
        \E i \in DOMAIN hb.events : hb.events[i] = "task_failed"

\* C16: a reflection starts only after next_pending() returned nothing and
\* pending_count() returned 0; when pending_count() finds pending rows the
\* tick emits idle and ends, changing nothing; when a task is due the tick
\* goes on to execute that task, and a tick that executes a task runs no
\* reflection.
C16_Pending == {i \in Ids(tasks) : tasks[i].status = "pending"}

C16_Due == {i \in C16_Pending : tasks[i].scheduled_at <= now}

C16_ReflectionPcs == {"reflect", "generate", "reflect_add"}

C16_ReflectionOnlyWhenEmpty ==
    [][/\ (hb'.pc \in C16_ReflectionPcs /\ hb.pc \notin C16_ReflectionPcs) =>
             /\ hb.pc = "pending_count"
             /\ C16_Pending = {}
       /\ (hb.pc = "pending_count" /\ hb' # hb /\ C16_Pending # {}) =>
             /\ hb'.pc = "sleep"
             /\ hb'.events = <<"idle">>
             /\ tasks' = tasks
       /\ (hb.pc = "next_pending" /\ hb' # hb) =>
             IF C16_Due # {}
             THEN hb'.pc = "start" /\ hb'.task_id \in C16_Due
             ELSE hb'.pc = "pending_count" /\ hb'.task_id = 0
       /\ hb'.pc \in C16_ReflectionPcs \cup {"pending_count"} =>
             /\ hb'.task_id = 0
             /\ \A i \in DOMAIN hb'.events : hb'.events[i] # "working"
       /\ hb'.task_id # 0 =>
             \A i \in DOMAIN hb'.events :
                hb'.events[i] \notin {"reflecting", "tasks_generated"}]_vars

\* an unpaused tick found no due task and a pending one scheduled for later
C16_Witness ==
    /\ hb.pc = "sleep"
    /\ hb.ticks = 1
    /\ hb.events = <<"idle">>
    /\ ~_paused
    /\ _pause_until = NULL
    /\ C16_Due = {}
    /\ C16_Pending = {5}

----------------------------------------------------------------------------
(* One tick of the heartbeat on a store without pending tasks: the          *)
(* reflection, with every reply the model can give up to MaxItems elements  *)

MaxItems == 3

\* the elements a reply is made of
ReflectElements ==
    {[title |-> TRUE, priority_name |-> Unspecified],
     [title |-> TRUE, priority_name |-> "low"],
     [title |-> FALSE, priority_name |-> Unspecified]}

ReflectLists == UNION {[1 .. n -> ReflectElements] : n \in 0 .. MaxItems}

ReflectReplies ==
    {[kind |-> "NOLIST", items |-> << >>], [kind |-> "ERROR", items |-> << >>]}
    \cup {[kind |-> "LIST", items |-> l] : l \in ReflectLists}

\* every seed task done, or every seed task cancelled
ReflectInit ==
    /\ now = 0
    /\ \/ tasks = seeds_done(5) /\ task_log = seeds_done_log(5)
       \/ tasks = bulk_cancelled(0) /\ task_log = bulk_log(0)
    /\ DriverInit
    /\ HeartbeatInit
    /\ ex = ExOff
    /\ UserInit

\* ollama.generate returns; scn and got keep the reply for the record
Reflect_Reply ==
    /\ hb.pc = "generate"
    /\ \E r \in ReflectReplies :
          /\ hb' = reflect_reply(hb, r)
          /\ scn' = [scn EXCEPT !.pc = r.kind]
          /\ got' = r.items
    /\ UNCHANGED <<tasks, task_log, now, calls, lastCall, ex, usrVars,
                   _paused, _pause_until, _current_task_id, chat>>

\* the first tick after the start of the server
Reflect_Tick ==
    /\ hb.ticks = 0
    /\ HB_Tick

ReflectNext ==
    \/ Reflect_Tick
    \/ HB_NextPending
    \/ HB_PendingCount
    \/ HB_ReflectPrep
    \/ Reflect_Reply
    \/ HB_ReflectAdd

SpecReflection == ReflectInit /\ [][ReflectNext]_vars

\* C17: when the store has no pending task and the reflection's reply is a
\* JSON array, then at the end of the tick the number of pending tasks is the
\* number n of elements with a title, the n new rows carry the priority_name
\* of their element, idle when the element names none, and exactly one
\* tasks_generated event was emitted, reporting n added tasks.
C17_Titled == SelectSeq(got, has_title)

C17_ReflectionAddsN ==
    (hb.pc = "sleep" /\ scn.pc = "LIST") =>
        LET n == Len(C17_Titled)
        IN  /\ Cardinality({i \in Ids(tasks) : tasks[i].status = "pending"}) = n
            /\ Len(tasks) = 5 + n
            /\ \A j \in 1 .. n :
                  /\ tasks[5 + j].status = "pending"
                  /\ tasks[5 + j].priority_name =
                        IF C17_Titled[j].priority_name = Unspecified
                        THEN "idle" ELSE C17_Titled[j].priority_name
            /\ hb.added = n
            /\ hb.events = <<"reflecting", "tasks_generated">>

\* the reply held two titled elements without a priority_name
C17_Witness ==
    /\ hb.pc = "sleep"
    /\ scn.pc = "LIST"
    /\ got = <<[title |-> TRUE, priority_name |-> Unspecified],
               [title |-> TRUE, priority_name |-> Unspecified]>>
    /\ pending_count(tasks) = 2
    /\ tasks[6].priority_name = "idle"
    /\ tasks[7].priority_name = "idle"
    /\ hb.added = 2
    /\ hb.events = <<"reflecting", "tasks_generated">>

----------------------------------------------------------------------------
(* The tool-use loops: execute_task of core/executor.py, run by the CLI,    *)
(* and _run_model_streaming with its fallback _run_model of server.py, run  *)
(* by /chat.  The message list is left out: the loops read it only to count *)
(* the nudges sent so far.  A reply is one of                               *)
(*   FINAL     it holds "FINAL:"                                             *)
(*   SKILL     it holds "SKILL: {...}" with JSON that loads                  *)
(*   BADSKILL  it holds "SKILL: {...}" with JSON that does not load          *)
(*   SKILLS    it holds two SKILL blocks, the JSON of the first loads        *)
(*   FINAL_SKILL  it holds a SKILL block whose JSON loads and "FINAL:"       *)
(*   ESCALATE  it begins with "ESCALATE:" and holds neither                  *)
(*   NEITHER   other text that holds neither                                *)
(*   EMPTY     nothing but white space                                      *)
(* and a call of ollama.chat can raise: OOM is a ResponseError that says    *)
(* "out of memory", ERROR any other exception.  A skill that is called      *)
(* returns, raises, or is unknown to the registry (ValueError).  ex.executed *)
(* counts the skills run, ex.observation is the user message the loop       *)
(* appended last.                                                           *)

max_tool_calls == 20
stream_max_tools == 20
NUDGE_LIMIT == 3

ExReplies ==
    {"FINAL", "SKILL", "BADSKILL", "SKILLS", "FINAL_SKILL", "ESCALATE",
     "NEITHER", "EMPTY"}

SkillOutcomes == {"returns", "raises", "unknown"}

\* re.search(r"FINAL:...", reply), re.search(r"SKILL:\s*(\{.*?\})", reply)
final_match(kind) == kind \in {"FINAL", "FINAL_SKILL"}
skill_match(kind) == kind \in {"SKILL", "BADSKILL", "SKILLS", "FINAL_SKILL"}

\* the SKILL blocks a reply holds
skill_blocks(kind) ==
    IF kind = "SKILLS" THEN 2 ELSE IF skill_match(kind) THEN 1 ELSE 0

\* _handle_skill_call on the first match: what it returns.  The loops of
\* server.py build the same two kinds of message in their try / except
_handle_skill_call(kind, skill) ==
    IF kind = "BADSKILL" THEN "ERROR: Malformed SKILL JSON"
    ELSE CASE skill = "returns" -> "result"
           [] skill = "unknown" -> "ERROR: unknown skill"
           [] OTHER -> "ERROR in skill execution"
ExRaises == {"OOM", "ERROR"}

\* get_model_for_category: the model, and the escalation target if any
RouteDecisions ==
    {[model |-> "small", escalation_target |-> "large"],
     [model |-> "small", escalation_target |-> "None"],
     [model |-> "large", escalation_target |-> "None"]}

\* the budget of a loop
tool_limit(loop) ==
    IF loop = "execute_task" THEN max_tool_calls ELSE stream_max_tools

\* the loop ends: its return value, and the model the Interaction record
\* gets: result.get("model", model)
ex_return(e, output, success, reason) ==
    [e EXCEPT !.pc = "done",
              !.result = [output |-> output, success |-> success,
                          tool_calls |-> e.tool_calls, model |-> e.model,
                          failure_reason |-> reason],
              !.model_used = e.model]

\* the code after the while loop
ex_exhausted(e) ==
    IF e.loop = "execute_task"
    THEN ex_return(e, "extracted", FALSE, "Max tool calls reached")
    ELSE IF e.last_reply \notin {"", "EMPTY"}
         THEN ex_return(e, "raw", TRUE, "")
         ELSE ex_return(e, "", FALSE, "")

\* the head of the while loop: call the model, or leave the loop
ex_head(e) ==
    IF e.tool_calls < tool_limit(e.loop) THEN [e EXCEPT !.pc = "chat"]
    ELSE ex_exhausted(e)

\* variant: every SKILL block of the reply is run and counted
ex_skill_every(e, kind, skill) ==
    [e EXCEPT !.pc = "head", !.tool_calls = @ + skill_blocks(kind),
              !.executed = IF kind # "BADSKILL" /\ skill # "unknown"
                           THEN @ + skill_blocks(kind) ELSE @,
              !.observation = _handle_skill_call(kind, skill)]

\* variant: an error of the skill leaves the loop as an exception
ex_skill_fatal(e, kind, skill) ==
    IF kind = "BADSKILL" \/ skill # "returns"
    THEN [e EXCEPT !.pc = "raised"]
    ELSE [e EXCEPT !.pc = "head", !.tool_calls = @ + 1,
                   !.executed = @ + 1, !.observation = "result"]

\* a skill call: counted, and run unless its JSON does not load or the
\* registry does not know it; the result or the error is the next user
\* message
ex_skill(e, kind, skill) ==
    [e EXCEPT !.pc = "head", !.tool_calls = @ + 1,
              !.executed = IF kind # "BADSKILL" /\ skill # "unknown"
                           THEN @ + 1 ELSE @,
              !.observation = _handle_skill_call(kind, skill)]

\* execute_task: a nudge; the message sent from the third nudge on does not
\* begin with "Continue." and is not counted
ex_nudge(e) ==
    [e EXCEPT !.pc = "head",
              !.nudges = IF @ >= NUDGE_LIMIT THEN @ ELSE @ + 1,
              !.observation = IF e.nudges >= NUDGE_LIMIT THEN "force"
                              ELSE "Continue."]

\* execute_task, one reply
execute_task_reply(e0, kind, skill) ==
    LET e == [e0 EXCEPT !.last_reply = kind,
                        !.escalate_seen = @ \/ kind = "ESCALATE"]
    IN  CASE kind = "OOM" -> ex_return(e0, "raw", FALSE, "OOM")
          [] kind = "ERROR" -> [e0 EXCEPT !.pc = "raised"]
          [] final_match(kind) -> ex_return(e, "final", TRUE, "")
          [] skill_match(kind) -> ex_skill(e, kind, skill)
          [] OTHER -> ex_nudge(e)

\* how the end of a streamed reply shows in _iter_stream: next() raises
\* StopIteration in the worker thread, an exception that cannot be set on a
\* Future, so the await never returns (Python up to 3.12) or raises
\* RuntimeError (3.13)
StopIterations == {"hangs", "raises"}

\* variant: a plain reply is answered with a nudge, as in execute_task
stream_reply_nudges(e0, kind, stop, skill) ==
    LET e == [e0 EXCEPT !.last_reply = kind,
                        !.escalate_seen = @ \/ kind = "ESCALATE"]
    IN  CASE e0.loop = "_run_model_streaming" ->
                 IF kind \in ExRaises \/ stop = "raises"
                 THEN [e0 EXCEPT !.loop = "_run_model", !.pc = "head",
                                 !.tool_calls = 0, !.executed = 0,
                                 !.last_reply = "", !.observation = ""]
                 ELSE [e0 EXCEPT !.pc = "hung"]
          [] kind \in ExRaises -> [e0 EXCEPT !.pc = "done",
                                             !.model_used = e0.model]
          [] final_match(kind) -> ex_return(e, "final", TRUE, "")
          [] skill_match(kind) -> ex_skill(e, kind, skill)
          [] OTHER -> ex_nudge(e)

\* _run_model_streaming and _run_model, one reply.  _run_model_streaming
\* streams its first call and does not get past it: an exception, of
\* ollama.chat or at the end of the stream, is caught by _chat_stream, which
\* runs _run_model from the start; an exception of _run_model leaves
\* result = None
stream_reply(e0, kind, stop, skill) ==
    LET e == [e0 EXCEPT !.last_reply = kind,
                        !.escalate_seen = @ \/ kind = "ESCALATE"]
    IN  CASE e0.loop = "_run_model_streaming" ->
                 IF kind \in ExRaises \/ stop = "raises"
                 THEN [e0 EXCEPT !.loop = "_run_model", !.pc = "head",
                                 !.tool_calls = 0, !.executed = 0,
                                 !.last_reply = "", !.observation = ""]
                 ELSE [e0 EXCEPT !.pc = "hung"]
          [] kind \in ExRaises -> [e0 EXCEPT !.pc = "done",
                                             !.model_used = e0.model]
          [] final_match(kind) -> ex_return(e, "final", TRUE, "")
          [] skill_match(kind) -> ex_skill(e, kind, skill)
          [] kind = "EMPTY" -> [e EXCEPT !.pc = "head",
                                         !.observation = "Continue."]
          [] OTHER -> ex_return(e, "raw", TRUE, "")

ExecInit ==
    /\ now = 0
    /\ tasks = _seed_initial_tasks(0)
    /\ task_log = seed_log
    /\ DriverInit
    /\ _paused = FALSE
    /\ _pause_until = NULL
    /\ _current_task_id = 0
    /\ hb = HbIdle
    /\ chat = NoChat
    /\ UserInit
    /\ \E loop \in {"execute_task", "_run_model_streaming"},
          route \in RouteDecisions :
          ex = [ExOff EXCEPT !.loop = loop, !.pc = "head",
                             !.model = route.model,
                             !.escalation_target = route.escalation_target]

Exec_Head ==
    /\ ex.pc = "head"
    /\ ex' = ex_head(ex)
    /\ UNCHANGED <<tasks, task_log, now, drvVars, hbVars, usrVars>>

Exec_Reply ==
    /\ ex.pc = "chat"
    /\ \E kind \in ExReplies \cup ExRaises, stop \in StopIterations,
          skill \in SkillOutcomes :
          ex' = IF ex.loop = "execute_task"
                THEN execute_task_reply(ex, kind, skill)
                ELSE stream_reply(ex, kind, stop, skill)
    /\ UNCHANGED <<tasks, task_log, now, drvVars, hbVars, usrVars>>

ExecNext ==
    \/ Exec_Head
    \/ Exec_Reply

SpecExecutor == ExecInit /\ [][ExecNext]_vars

\* the loop is sequential code: it takes its next step whenever it has one
SpecExecutorFair == SpecExecutor /\ WF_vars(ExecNext)

\* C18: every run of execute_task ends, whatever the model replies.
C18_ExecuteTaskTerminates ==
    (ex.loop = "execute_task") ~> (ex.pc \in {"done", "raised"})

\* C19: a run of a tool-use loop never runs more skills than its budget of
\* 20, and when it ends because the budget is spent it returns the text
\* extracted from the last reply with success = false and tool_calls = 20.
C19_BudgetIsHardCap ==
    /\ ex.executed <= ex.tool_calls
    /\ ex.tool_calls <= max_tool_calls
    /\ (ex.pc = "done" /\ ex.tool_calls = max_tool_calls) =>
          /\ ex.result.success = FALSE
          /\ ex.result.tool_calls = max_tool_calls
          /\ ex.result.output = "extracted"

\* The replies and skill outcomes that make a skill error: the SKILL JSON is
\* malformed, the skill is unknown, the skill raises
SkillErrors ==
    {"ERROR: Malformed SKILL JSON", "ERROR: unknown skill",
     "ERROR in skill execution"}

C33_SkillError(kind, skill) ==
    /\ ex.loop = "execute_task"
    /\ ex.pc = "chat"
    /\ skill_match(kind) /\ ~final_match(kind)
    /\ kind = "BADSKILL" \/ skill # "returns"
    /\ ex' = execute_task_reply(ex, kind, skill)

C33_Caught ==
    /\ ex'.pc = "head"
    /\ ex'.observation \in SkillErrors
    /\ ex'.tool_calls = ex.tool_calls + 1

C34_OneSkillPerReply ==
    [][\A kind \in ExReplies, skill \in SkillOutcomes :
          (/\ ex.loop = "execute_task"
           /\ ex.pc = "chat"
           /\ ex' = execute_task_reply(ex, kind, skill)) =>
              /\ ex'.executed \in {ex.executed, ex.executed + 1}
              /\ ex'.executed = ex.executed + 1 =>
                    (skill_match(kind) /\ ex'.tool_calls = ex.tool_calls + 1)
              /\ ex'.tool_calls \in {ex.tool_calls, ex.tool_calls + 1}
              /\ final_match(kind) =>
                    /\ ex'.executed = ex.executed
                    /\ ex'.pc = "done"
                    /\ ex'.result.success
                    /\ ex'.result.tool_calls = ex.tool_calls
              /\ (/\ final_match(kind)
                  /\ ex.last_reply = "SKILL"
                  /\ ex.executed = 1
                  /\ ex.tool_calls = 1) =>
                    (ex'.result.tool_calls = 1 /\ ex'.result.success)]_vars

\* one SKILL reply, then a reply that holds FINAL and a SKILL block: the
\* result has tool_calls = 1 and success = true
C34_Witness ==
    /\ ex.loop = "execute_task"
    /\ ex.pc = "done"
    /\ ex.last_reply = "FINAL_SKILL"
    /\ ex.executed = 1
    /\ ex.nudges = 0
    /\ ex.result.tool_calls = 1
    /\ ex.result.success

\* C20: when the routed model has an escalation target and a reply of the
\* turn began with "ESCALATE:", the turn's Interaction record has
\* model_used = the escalation target.
C20_EscalatedModelUsed ==
    (ex.pc = "done" /\ ex.escalation_target # "None" /\ ex.escalate_seen) =>
        ex.model_used = ex.escalation_target

----------------------------------------------------------------------------
(* A user turn: run_agent of main.py (the CLI) and chat with _chat_stream   *)
(* of server.py (POST /chat).  The text of an output is one of three        *)
(* classes: "" (nothing but white space), "rejected" (text that one of the  *)
(* checks of validate_result rejects: too short, a refusal, an incomplete   *)
(* answer, no code, no number) and "ok" (text that passes them all).        *)

max_retries == 8

Outputs == {"", "rejected", "ok"}

\* router.py MODEL_MAP, one category for each model it names, and a category
\* it does not hold
TurnCategories ==
    {"intent_classification", "general_chat", "translation", "web_search",
     "image_description", "coding", "math", "planning", "research",
     "screenshot_analysis", "unknown"}

route_to_model(category) ==
    CASE category \in {"intent_classification", "prompt_rewriting",
                       "sentiment_analysis", "safety_check"} -> "qwen2.5:0.5b"
      [] category \in {"general_chat", "summarization", "task_management"} ->
             "llama3.2:3b"
      [] category = "translation" -> "qwen2.5:3b"
      [] category = "web_search" -> "llama3.1:8b"
      [] category = "image_description" -> "llava:7b"
      [] category \in {"coding", "debugging", "shell_command", "skill_writing",
                       "structured_output", "file_management",
                       "data_analysis"} -> "qwen2.5-coder:14b"
      [] category \in {"math", "reasoning", "error_recovery"} ->
             "deepseek-r1:14b"
      [] category = "planning" -> "phi4:14b"
      [] category \in {"research", "creative_writing", "agentic_task"} ->
             "qwen2.5:14b"
      [] category = "screenshot_analysis" -> "llama3.2-vision:11b"
      [] OTHER -> "llama3.1:8b"

get_fallback(model) ==
    CASE model = "qwen2.5-coder:14b" ->
             <<"qwen2.5-coder:7b", "llama3.1:8b", "llama3.2:3b">>
      [] model = "deepseek-r1:14b" ->
             <<"deepseek-r1:7b", "qwen2.5:7b", "llama3.1:8b">>
      [] model = "phi4:14b" -> <<"mistral-nemo:12b", "mistral:7b", "llama3.1:8b">>
      [] model = "qwen2.5:14b" -> <<"qwen2.5:7b", "llama3.1:8b", "llama3.2:3b">>
      [] model = "llama3.2-vision:11b" -> <<"llava:7b", "llama3.2:3b">>
      [] model = "llama3.1:8b" -> <<"llama3.2:3b">>
      [] model = "llava:7b" -> <<"llama3.2:3b">>
      [] OTHER -> <<"llama3.1:8b", "llama3.2:3b">>

\* validate_result: the output is not empty and passes every check
validate_result(result) == result.output = "ok"

\* what execute_task returns when run with a model: a FINAL answer, the
\* last reply at an out-of-memory error, or the text extracted from the last
\* reply when the budget is spent (never empty: "No output generated.")
execute_task_returns(model) ==
    {[output |-> o, success |-> TRUE, tool_calls |-> 0, model |-> model,
      failure_reason |-> ""] : o \in Outputs}
    \cup {[output |-> o, success |-> FALSE, tool_calls |-> 0, model |-> model,
           failure_reason |-> "OOM"] : o \in Outputs}
    \cup {[output |-> o, success |-> FALSE, tool_calls |-> max_tool_calls,
           model |-> model, failure_reason |-> "Max tool calls reached"] :
          o \in Outputs \ {""}}

\* the kind of a return of execute_task
return_kind(result) ==
    CASE result.failure_reason = "OOM" -> "oom"
      [] result.failure_reason = "" -> "final"
      [] OTHER -> "max"

\* a log_interaction that writes no row
log_interaction_dropped(I, model, output, success, tool_calls) == I

\* AgentMemory.log_interaction: one row of the interactions table
log_interaction(I, model, output, success, tool_calls) ==
    Append(I, [model_used |-> model, output |-> output, success |-> success,
               tool_calls |-> tool_calls])

\* run_agent up to its retry loop: the intent is classified and routed
run_agent_begin(category) ==
    LET model == route_to_model(category)
    IN  [TurnOff EXCEPT !.entry = "run_agent", !.pc = "loop",
                        !.msg = <<"a">>, !.category = category,
                        !.model = model,
                        !.models_to_try = <<model>> \o get_fallback(model),
                        !.invoked = TRUE]

\* while attempt < max_retries: the next attempt and its model
RA_LoopHead ==
    /\ turn.entry = "run_agent"
    /\ turn.pc = "loop"
    /\ turn' = IF turn.attempt < max_retries
               THEN LET attempt == turn.attempt + 1
                        n == Len(turn.models_to_try)
                    IN  [turn EXCEPT
                           !.pc = "exec", !.attempt = attempt,
                           !.current_model =
                               turn.models_to_try[IF attempt - 1 < n - 1
                                                  THEN attempt
                                                  ELSE n]]
               ELSE [turn EXCEPT !.pc = "log"]
    /\ UNCHANGED <<tasks, task_log, now, drvVars, hbVars, ex, sink, pipe, proc>>

\* execute_task returns: the result is validated
RA_Executed ==
    /\ turn.entry = "run_agent"
    /\ turn.pc = "exec"
    /\ \E r \in execute_task_returns(turn.current_model) :
          turn' = [turn EXCEPT
                     !.has_result = TRUE, !.result = r,
                     !.prev = turn.outcome, !.outcome = return_kind(r),
                     !.pc = IF validate_result(r) THEN "log" ELSE "loop"]
    /\ UNCHANGED <<tasks, task_log, now, drvVars, hbVars, ex, sink, pipe, proc>>

\* execute_task raises: except Exception, result keeps its value
RA_Raised ==
    /\ turn.entry = "run_agent"
    /\ turn.pc = "exec"
    /\ turn' = [turn EXCEPT !.prev = turn.outcome, !.outcome = "raised",
                            !.pc = "loop"]
    /\ UNCHANGED <<tasks, task_log, now, drvVars, hbVars, ex, sink, pipe, proc>>

\* except KeyboardInterrupt
RA_Interrupt ==
    /\ turn.entry = "run_agent"
    /\ turn.pc = "exec"
    /\ turn' = [turn EXCEPT
                  !.has_result = TRUE,
                  !.result = [output |-> "rejected", success |-> FALSE,
                              tool_calls |-> 0, model |-> turn.current_model,
                              failure_reason |-> ""],
                  !.prev = turn.outcome, !.outcome = "interrupt",
                  !.pc = "log"]
    /\ UNCHANGED <<tasks, task_log, now, drvVars, hbVars, ex, sink, pipe, proc>>

\* after the loop: memory.log_interaction
RA_Log ==
    /\ turn.entry = "run_agent"
    /\ turn.pc = "log"
    /\ turn' = [turn EXCEPT
                  !.pc = "done",
                  !.interactions =
                      IF turn.has_result
                      THEN log_interaction(@, turn.result.model,
                                           turn.result.output,
                                           turn.result.success,
                                           turn.result.tool_calls)
                      ELSE log_interaction(@, turn.model, "", FALSE, 0)]
    /\ UNCHANGED <<tasks, task_log, now, drvVars, hbVars, ex, sink, pipe, proc>>

\* POST /chat.  A message is a string over a blank and a letter
MaxMsgLen == 2

Chars == {" ", "a"}

Messages == UNION {[1 .. n -> Chars] : n \in 0 .. MaxMsgLen}

\* a strip() that leaves the text as it is
strip_none(m) == m

\* str.strip(): the text from the first to the last character that is not
\* white space
strip(m) ==
    LET inked == {i \in DOMAIN m : m[i] # " "}
    IN  IF inked = {} THEN << >>
        ELSE SubSeq(m, CHOOSE i \in inked : \A j \in inked : i <= j,
                       CHOOSE i \in inked : \A j \in inked : j <= i)

\* what _run_model returns: a FINAL answer or a plain reply accepted as it
\* is.  The return with success = False after the loop needs an empty last
\* reply with the budget spent, and the reply that spends the budget holds
\* a SKILL block
run_model_returns(model) ==
    {[output |-> o, success |-> TRUE, tool_calls |-> 0, model |-> model,
      failure_reason |-> ""] : o \in Outputs}

\* the categories _chat_stream queues a follow-up task for
FollowUpCategories ==
    {"research", "web_search", "planning", "agentic_task", "coding"}

\* chat(): an empty message is answered {"error": "empty"}; any other
\* message pauses the heartbeat and is answered by the stream
Chat_Request ==
    /\ turn.entry = "_chat_stream"
    /\ turn.pc = "request"
    /\ \E m \in Messages :
          LET msg == strip(m)
          IN  IF msg = << >>
              THEN /\ turn' = [turn EXCEPT !.pc = "done", !.raw = m,
                                           !.reply = "empty"]
                   /\ UNCHANGED <<tasks, _paused, _pause_until,
                                  _current_task_id>>
              ELSE /\ turn' = [turn EXCEPT !.pc = "prepare", !.raw = m,
                                           !.msg = msg, !.reply = "stream"]
                   /\ _paused' = TRUE
                   /\ _pause_until' = NULL
                   /\ tasks' = IF _current_task_id # 0
                               THEN pause_running(tasks) ELSE tasks
                   /\ _current_task_id' = 0
    /\ UNCHANGED <<task_log, now, drvVars, hb, chat, ex, sink, pipe, proc>>

\* _chat_stream up to the model call: the intent is classified and routed,
\* the quick acknowledgement is generated
Chat_Prepare ==
    /\ turn.entry = "_chat_stream"
    /\ turn.pc = "prepare"
    /\ \E category \in TurnCategories :
          turn' = [turn EXCEPT !.pc = "exec", !.category = category,
                               !.model = route_to_model(category),
                               !.current_model = route_to_model(category),
                               !.attempt = 1, !.invoked = TRUE,
                               !.final = "apology"]
    /\ UNCHANGED <<tasks, task_log, now, drvVars, hbVars, ex, sink, pipe, proc>>

\* _run_model_streaming, the first call.  ollama.chat raises, or the reply
\* is streamed to its end, where _iter_stream has next() raise StopIteration
\* in the worker thread: an exception that cannot be set on a Future, so the
\* await never returns (Python up to 3.12) or raises RuntimeError (3.13).
\* Every exception is caught by _chat_stream, which goes on to _run_model.
StreamEnds == {"oom", "raised", "stop_raises", "stop_hangs"}

Chat_Streamed ==
    /\ turn.entry = "_chat_stream"
    /\ turn.pc = "exec"
    /\ turn.attempt = 1
    /\ \E end \in StreamEnds :
          turn' = IF end = "stop_hangs"
                  THEN [turn EXCEPT !.pc = "hung", !.prev = turn.outcome,
                                    !.outcome = "hung"]
                  ELSE [turn EXCEPT
                          !.attempt = 2, !.prev = turn.outcome,
                          !.outcome = IF end = "oom" THEN "oom" ELSE "raised"]
    /\ UNCHANGED <<tasks, task_log, now, drvVars, hbVars, ex, sink, pipe, proc>>

\* _run_model, run with the same model: it returns, or it raises and the
\* result stays None
Chat_Fallback ==
    /\ turn.entry = "_chat_stream"
    /\ turn.pc = "exec"
    /\ turn.attempt = 2
    /\ \/ \E r \in run_model_returns(turn.current_model) :
             turn' = [turn EXCEPT !.pc = "log", !.has_result = TRUE,
                                  !.result = r, !.final = r.output,
                                  !.prev = turn.outcome, !.outcome = "final"]
       \/ \E kind \in {"oom", "raised"} :
             turn' = [turn EXCEPT !.pc = "log", !.prev = turn.outcome,
                                  !.outcome = kind]
    /\ UNCHANGED <<tasks, task_log, now, drvVars, hbVars, ex, sink, pipe, proc>>

\* memory.log_interaction
Chat_Log ==
    /\ turn.entry = "_chat_stream"
    /\ turn.pc = "log"
    /\ turn' = [turn EXCEPT
                  !.pc = "finish",
                  !.interactions =
                      IF turn.has_result
                      THEN log_interaction(@, turn.result.model, turn.final,
                                           turn.result.success,
                                           turn.result.tool_calls)
                      ELSE log_interaction(@, turn.model, turn.final,
                                           FALSE, 0)]
    /\ UNCHANGED <<tasks, task_log, now, drvVars, hbVars, ex, sink, pipe, proc>>

\* the rest of _chat_stream: the follow-up task, resume_after_user()
Chat_Finish ==
    /\ turn.entry = "_chat_stream"
    /\ turn.pc = "finish"
    /\ turn' = [turn EXCEPT !.pc = "done"]
    /\ IF turn.category \in FollowUpCategories
       THEN /\ tasks' = add(tasks, "low", NULL, 2, now)
            /\ task_log' = _log(task_log, Len(tasks) + 1, "created")
       ELSE UNCHANGED <<tasks, task_log>>
    /\ _pause_until' = now + USER_PAUSE_COOLDOWN
    /\ _paused' = FALSE
    /\ UNCHANGED <<now, drvVars, _current_task_id, hb, chat, ex, sink, pipe, proc>>

TurnInit ==
    /\ now = 0
    /\ tasks = _seed_initial_tasks(0)
    /\ task_log = seed_log
    /\ DriverInit
    /\ HeartbeatInit
    /\ ex = ExOff
    /\ sink = SinkOff
    /\ pipe = PipeOff
    /\ proc = ProcOff
    /\ \/ \E category \in TurnCategories : turn = run_agent_begin(category)
       \/ turn = [TurnOff EXCEPT !.entry = "_chat_stream", !.pc = "request"]

TurnNext ==
    \/ RA_LoopHead
    \/ RA_Executed
    \/ RA_Raised
    \/ RA_Interrupt
    \/ RA_Log
    \/ Chat_Request
    \/ Chat_Prepare
    \/ Chat_Streamed
    \/ Chat_Fallback
    \/ Chat_Log
    \/ Chat_Finish

SpecTurn == TurnInit /\ [][TurnNext]_vars

----------------------------------------------------------------------------
(* Properties of a user turn, checked under SpecTurn *)

\* C21: when the preferred model runs out of memory the turn is retried
\* with the first model of its fallback chain, and when that model gives a
\* valid FINAL answer the Interaction record has model_used = the fallback
\* model and success = true.  (A user turn sends nothing to the broadcast
\* sink, so it emits no task_failed event.)
C21_OOMFallback ==
    /\ (turn.attempt = 1 /\ turn.outcome = "oom") => turn.pc = "loop"
    /\ (turn.attempt = 2 /\ turn.pc = "exec" /\ turn.outcome = "oom") =>
          turn.current_model = Head(get_fallback(turn.model))
    /\ (turn.pc = "done" /\ turn.attempt = 2 /\ turn.prev = "oom"
            /\ turn.outcome = "final" /\ turn.has_result
            /\ turn.result.success /\ validate_result(turn.result)) =>
          turn.interactions =
              <<[model_used |-> Head(get_fallback(turn.model)),
                 output |-> "ok", success |-> TRUE, tool_calls |-> 0]>>

\* C22: in run_agent, an attempt that follows a validation failure runs a
\* model of the fallback chain that is not the model whose output was just
\* rejected, at every attempt up to max_retries.
C22_Rejected ==
    /\ turn.entry = "run_agent"
    /\ turn.pc = "exec"
    /\ turn.outcome \in {"final", "oom", "max"}

C22_RetryOnDifferentModel ==
    C22_Rejected =>
        /\ turn.current_model # turn.result.model
        /\ \E i \in DOMAIN get_fallback(turn.model) :
              turn.current_model = get_fallback(turn.model)[i]

\* C23: a user turn writes its Interaction record when it completes, and
\* writes exactly one, however many attempts it made and however they ended.
C23_OneInteractionPerTurn ==
    /\ Len(turn.interactions) <= 1
    /\ turn.interactions # << >> => turn.pc \in {"finish", "done"}
    /\ (turn.pc \in {"finish", "done"} /\ turn.reply # "empty") =>
          Len(turn.interactions) = 1

\* a turn of run_agent that used all its attempts, the last one raising,
\* and a turn of /chat whose two runs of the model both raised
C23_Witness ==
    /\ turn.pc = "done"
    /\ Len(turn.interactions) = 1
    /\ turn.outcome = "raised"
    /\ turn.attempt \in {2, max_retries}
    /\ ~turn.has_result

\* C24: the Interaction record of a turn names the model of the turn's last
\* executor attempt.
C24_LogsFinalModel ==
    (turn.pc = "done" /\ turn.interactions # << >>) =>
        turn.interactions[1].model_used = turn.current_model

\* C28: a message that is empty or all white space is answered
\* {"error": "empty"}, and such an answer comes with no other effect: the
\* heartbeat is not paused, no model is invoked, no Interaction is logged
\* and no task is added.
C28_Blank == \A i \in DOMAIN turn.raw : turn.raw[i] = " "

C28_EmptyRejected ==
    /\ (turn.entry = "_chat_stream" /\ turn.pc # "request" /\ C28_Blank) =>
          turn.reply = "empty"
    /\ turn.reply = "empty" =>
          /\ turn.pc = "done"
          /\ C28_Blank
          /\ turn.msg = << >>
          /\ ~_paused
          /\ _pause_until = NULL
          /\ ~turn.invoked
          /\ turn.interactions = << >>
          /\ tasks = _seed_initial_tasks(0)
          /\ task_log = seed_log

\* a message of white space was rejected
C28_Witness ==
    /\ turn.reply = "empty"
    /\ turn.raw = <<" ", " ">>

----------------------------------------------------------------------------
(* The broadcast sink of server.py: broadcast() and the queues of the       *)
(* GET /events connections.  Events are numbered in the order of their      *)
(* emission.  A connection s is sink.subs[s]: its queue q, the events it    *)
(* has read from the queue so far, the number of events sent before it was  *)
(* opened, and its state: "live" while its queue is in _broadcast_queues,   *)
(* "dropped" once broadcast() has discarded it, "closed" after its          *)
(* generator has ended.                                                     *)

MaxEvents == 52
MaxSubscribers == 2
MaxJoin == 1

\* asyncio.Queue(maxsize=50)
maxsize == 50

\* the connection whose client reads its events; the clients of the other
\* connections are stalled and read nothing
Readers == {1}

\* a queue that is never full
full_never(q) == FALSE

\* asyncio.Queue.full()
full(q) == Len(q) >= maxsize

\* broadcast(): one connection's share of it.  put_nowait appends the event
\* or raises QueueFull, and the queue that raised is discarded
broadcast_one(sub, event) ==
    IF sub.state # "live" THEN sub
    ELSE IF full(sub.q)
         THEN [sub EXCEPT !.state = "dropped", !.missed = event]
         ELSE [sub EXCEPT !.q = Append(@, event)]

\* broadcast(event)
broadcast(S, event) == [s \in DOMAIN S |-> broadcast_one(S[s], event)]

SinkInit ==
    /\ now = 0
    /\ tasks = _seed_initial_tasks(0)
    /\ task_log = seed_log
    /\ DriverInit
    /\ HeartbeatInit
    /\ ex = ExOff
    /\ turn = TurnOff
    /\ pipe = PipeOff
    /\ proc = ProcOff
    /\ sink = [SinkOff EXCEPT !.subs = [s \in 1 .. MaxSubscribers |->
                                            NoSubscriber]]

\* GET /events: q = asyncio.Queue(maxsize=50); _broadcast_queues.add(q)
Sink_Subscribe ==
    /\ sink.sent <= MaxJoin
    /\ \E s \in DOMAIN sink.subs :
          /\ sink.subs[s].state = "none"
          /\ sink' = [sink EXCEPT !.subs[s].state = "live",
                                  !.subs[s].joined = sink.sent]
    /\ UNCHANGED <<tasks, task_log, now, drvVars, hbVars, ex, turn, pipe, proc>>

\* a producer calls broadcast(event); it runs to its end without awaiting
Sink_Broadcast ==
    /\ sink.sent < MaxEvents
    /\ sink' = [sink EXCEPT !.sent = @ + 1,
                            !.subs = broadcast(@, sink.sent + 1)]
    /\ UNCHANGED <<tasks, task_log, now, drvVars, hbVars, ex, turn, pipe, proc>>

\* generate(): event = await q.get(); yield _sse(event)
Sink_Read ==
    /\ \E s \in Readers :
          /\ sink.subs[s].state \in {"live", "dropped"}
          /\ sink.subs[s].q # << >>
          /\ sink' = [sink EXCEPT !.subs[s].q = Tail(@),
                                  !.subs[s].read =
                                      Append(@, Head(sink.subs[s].q))]
    /\ UNCHANGED <<tasks, task_log, now, drvVars, hbVars, ex, turn, pipe, proc>>

\* generate(): the client is gone; finally: _broadcast_queues.discard(q),
\* and the queue goes with the generator
Sink_Disconnect ==
    /\ \E s \in DOMAIN sink.subs :
          /\ sink.subs[s].state \in {"live", "dropped"}
          /\ sink' = [sink EXCEPT
                        !.subs[s] = [NoSubscriber EXCEPT !.state = "closed"]]
    /\ UNCHANGED <<tasks, task_log, now, drvVars, hbVars, ex, turn, pipe, proc>>

SinkNext ==
    \/ Sink_Subscribe
    \/ Sink_Broadcast
    \/ Sink_Read
    \/ Sink_Disconnect

SpecSink == SinkInit /\ [][SinkNext]_vars

\* C25: broadcast() never waits for a subscriber; a subscriber gets every
\* event sent while its queue is in the sink exactly once and in the order
\* of emission; a subscriber whose queue of 50 is full when an event is sent
\* is dropped and gets no event from then on; no queue holds more than 50.
C25_Received(s) == sink.subs[s].read \o sink.subs[s].q

C25_BroadcastNeverBlocks ==
    /\ sink.sent < MaxEvents => ENABLED Sink_Broadcast
    /\ \A s \in DOMAIN sink.subs :
          LET sub == sink.subs[s]
              n == Len(C25_Received(s))
          IN  /\ Len(sub.q) <= maxsize
              /\ C25_Received(s) = [i \in 1 .. n |-> sub.joined + i]
              /\ sub.state = "live" => sub.joined + n = sink.sent
              /\ sub.state = "dropped" =>
                    /\ sub.missed = sub.joined + n + 1
                    /\ n >= maxsize
              /\ sub.state # "dropped" => sub.missed = 0

\* a subscriber that read nothing was dropped at event 51, which the other
\* subscriber has read
C25_Witness ==
    /\ sink.subs[2].state = "dropped"
    /\ sink.subs[2].missed = maxsize + 1
    /\ Len(sink.subs[2].q) = maxsize
    /\ sink.subs[1].state = "live"
    /\ sink.subs[1].read # << >>
    /\ sink.subs[1].read[Len(sink.subs[1].read)] = maxsize + 1

----------------------------------------------------------------------------
(* The pre-pipeline of core/pipeline_pre.py: run_pre_pipeline, which the    *)
(* server calls, and the memoising functions classify_intent,               *)
(* rewrite_prompt and get_extracted_facts.  pipe.generate counts the calls  *)
(* of ollama.generate; pipe.last and pipe.prev are the two most recent      *)
(* calls: the function, its argument, what it returned and the value of     *)
(* pipe.generate before and after.                                          *)

MaxWords == 4
MaxPipeCalls == 2

SHORT_WORDS == 4
REWRITE_FACTOR == 5

\* a message of n one-letter words
words(n) == [i \in 1 .. (IF n = 0 THEN 0 ELSE 2 * n - 1) |->
                IF i % 2 = 1 THEN "a" ELSE " "]

PipeMessages == {words(n) : n \in 0 .. MaxWords}

\* len(user_message.split())
word_count(m) ==
    Cardinality({i \in DOMAIN m : m[i] # " " /\ (i = 1 \/ m[i - 1] = " ")})

\* _heuristic_category: no message over a blank and the letter a holds one
\* of its keywords
_heuristic_category(m) == "general_chat"

\* what ollama.generate does: it raises, it answers text without a JSON
\* object ("nojson"), or it answers an object with a category (one of
\* CATEGORIES or not), a rewritten text of some length and facts that are a
\* list or not
PipeReplies ==
    [kind : {"raise", "nojson"}, category : {"-"}, rewritten : {0},
     facts : {"-"}]
    \cup [kind : {"json"}, category : {"coding", "general_chat", "bogus"},
          rewritten : {0, 3, 40}, facts : {"list", "null"}]

CATEGORIES ==
    {"general_chat", "coding", "debugging", "math", "reasoning",
     "summarization", "web_search", "data_analysis", "creative_writing",
     "translation", "planning", "shell_command", "file_management",
     "image_description", "screenshot_analysis", "task_management",
     "research", "skill_writing", "agentic_task", "error_recovery"}

\* the heuristic fallback of run_pre_pipeline
heuristic_pre(m) ==
    [category |-> _heuristic_category(m), rewritten |-> "original",
     facts |-> "[]", _source |-> "heuristic"]

\* run_pre_pipeline(user_message), given what ollama.generate does.
\* skip_heavy is computed and never read
run_pre_pipeline(m, reply) ==
    LET skip_heavy == word_count(m) < SHORT_WORDS
    IN  IF reply.kind = "json"
        THEN [category |-> IF reply.category \in CATEGORIES
                           THEN reply.category
                           ELSE _heuristic_category(m),
              rewritten |-> IF reply.rewritten = 0
                               \/ reply.rewritten > Len(m) * REWRITE_FACTOR
                            THEN "original" ELSE "llm",
              facts |-> IF reply.facts = "list" THEN "llm" ELSE "[]",
              _source |-> "llm"]
        ELSE heuristic_pre(m)

\* the part of the dict a function returns
pre_slice(fn, pre) ==
    CASE fn = "classify_intent" ->
             [NoPre EXCEPT !.category = pre.category]
      [] fn = "rewrite_prompt" -> [NoPre EXCEPT !.rewritten = pre.rewritten]
      [] fn = "get_extracted_facts" -> [NoPre EXCEPT !.facts = pre.facts]
      [] OTHER -> pre

PipeInit ==
    /\ now = 0
    /\ tasks = _seed_initial_tasks(0)
    /\ task_log = seed_log
    /\ DriverInit
    /\ HeartbeatInit
    /\ ex = ExOff
    /\ turn = TurnOff
    /\ sink = SinkOff
    /\ pipe = PipeOff
    /\ proc = ProcOff

\* _chat_stream: run_pre_pipeline(user_message), no cache consulted
Pipe_Run ==
    /\ pipe.calls < MaxPipeCalls
    /\ \E m \in PipeMessages, reply \in PipeReplies :
          LET pre == run_pre_pipeline(m, reply)
          IN  pipe' = [pipe EXCEPT
                         !.calls = @ + 1, !.generate = @ + 1,
                         !.prev = pipe.last,
                         !.last = [fn |-> "run_pre_pipeline", msg |-> m,
                                   ret |-> pre, before |-> pipe.generate,
                                   after |-> pipe.generate + 1]]
    /\ UNCHANGED <<tasks, task_log, now, drvVars, hbVars, ex, turn, sink, proc>>

\* classify_intent, rewrite_prompt, get_extracted_facts: the pipeline runs
\* when the argument is not _last_input
Pipe_Shim ==
    /\ pipe.calls < MaxPipeCalls
    /\ \E fn \in {"classify_intent", "rewrite_prompt", "get_extracted_facts"},
          m \in PipeMessages, reply \in PipeReplies :
          LET miss == pipe._last_input # m
              pre == IF miss THEN run_pre_pipeline(m, reply)
                     ELSE pipe._last_pre
              n == IF miss THEN pipe.generate + 1 ELSE pipe.generate
          IN  pipe' = [pipe EXCEPT
                         !.calls = @ + 1, !.generate = n,
                         !._last_input = m, !._last_pre = pre,
                         !.prev = pipe.last,
                         !.last = [fn |-> fn, msg |-> m,
                                   ret |-> pre_slice(fn, pre),
                                   before |-> pipe.generate, after |-> n]]
    /\ UNCHANGED <<tasks, task_log, now, drvVars, hbVars, ex, turn, sink, proc>>

PipeNext ==
    \/ Pipe_Run
    \/ Pipe_Shim

SpecPipe == PipeInit /\ [][PipeNext]_vars

\* C26: two calls in a row that return an intent for the same message
\* return the same intent, and the model is invoked at most once for the two.
C26_IntentFns == {"run_pre_pipeline", "classify_intent"}

C26_SameIntentOneCall ==
    (/\ pipe.prev.fn \in C26_IntentFns
     /\ pipe.last.fn \in C26_IntentFns
     /\ pipe.prev.msg = pipe.last.msg) =>
        /\ pipe.last.ret.category = pipe.prev.ret.category
        /\ pipe.last.after - pipe.prev.before <= 1

\* C27: for a message of at most 3 words run_pre_pipeline makes no model
\* call and returns the heuristic category, the original message as
\* rewritten and no facts.
C27_ShortCircuit ==
    (pipe.last.fn = "run_pre_pipeline" /\ word_count(pipe.last.msg) <= 3) =>
        /\ pipe.last.after = pipe.last.before
        /\ pipe.last.ret = heuristic_pre(pipe.last.msg)

----------------------------------------------------------------------------
(* Opening the Task Store: TaskQueue.__init__ on a database file that may   *)
(* already hold rows.  The process is started, works through the rows in    *)
(* the order of their ids (scn.id is the next row, scn.nfail the number of  *)
(* failures reported for it), and is restarted; scn.m counts the openings.  *)
(* Failures are reported for the first row.                                 *)

MaxOpens == 3
MaxRowFails == 3

\* variant: seeds when no row is left to work on
__init___unfinished(T, L, t) ==
    IF \E i \in DOMAIN T : T[i].status \notin {"done", "cancelled", "failed"}
    THEN [tasks |-> T, task_log |-> L]
    ELSE [tasks |-> T \o _seed_initial_tasks(t), task_log |-> L \o seed_log]

\* _ensure_schema creates the tables only if missing; _seed_initial_tasks
\* returns when SELECT COUNT(*) FROM tasks > 0, else adds the five tasks,
\* each with its "created" log row
__init__(T, L, t) ==
    IF Len(T) > 0
    THEN [tasks |-> T, task_log |-> L]
    ELSE [tasks |-> _seed_initial_tasks(t), task_log |-> L \o seed_log]

\* the database file does not exist yet
SeedInit ==
    /\ now = 0
    /\ tasks = << >>
    /\ task_log = << >>
    /\ calls = 0
    /\ lastCall = NoCall
    /\ got = << >>
    /\ scn = [NoScn EXCEPT !.pc = "closed", !.id = 1]
    /\ HeartbeatInit
    /\ ex = ExOff
    /\ UserInit

\* server.py lifespan: task_queue = TaskQueue(DB_PATH)
Seed_Open ==
    /\ scn.pc = "closed"
    /\ scn.m < MaxOpens
    /\ LET db == __init__(tasks, task_log, now)
       IN  /\ tasks' = db.tasks
           /\ task_log' = db.task_log
           /\ lastCall' = [op |-> "open", id |-> Len(tasks),
                           ret |-> Len(db.tasks)]
    /\ scn' = [scn EXCEPT !.pc = "open", !.m = @ + 1]
    /\ UNCHANGED <<now, calls, got, hbVars, ex, usrVars>>

\* the process ends; the file stays
Seed_Close ==
    /\ scn.pc = "open"
    /\ scn' = [scn EXCEPT !.pc = "closed"]
    /\ lastCall' = [op |-> "close", id |-> 0, ret |-> 0]
    /\ UNCHANGED <<tasks, task_log, now, calls, got, hbVars, ex, usrVars>>

\* the next row is completed or cancelled
Seed_Settle ==
    /\ scn.pc = "open"
    /\ scn.id \in Ids(tasks)
    /\ \E op \in {"complete", "cancel"} :
          /\ tasks' = IF op = "complete"
                      THEN complete(tasks, scn.id, "ok", now)
                      ELSE cancel(tasks, scn.id, now)
          /\ task_log' = _log(task_log, scn.id,
                              IF op = "complete" THEN "completed"
                              ELSE "cancelled")
          /\ lastCall' = [op |-> op, id |-> scn.id, ret |-> 0]
    /\ scn' = [scn EXCEPT !.id = @ + 1, !.nfail = 0]
    /\ UNCHANGED <<now, calls, got, hbVars, ex, usrVars>>

\* the next row fails: a retry is scheduled, or it is failed for good
Seed_Fail ==
    /\ scn.pc = "open"
    /\ scn.id \in Ids(tasks)
    /\ scn.id = 1
    /\ scn.nfail < MaxRowFails
    /\ tasks' = fail(tasks, scn.id, now)
    /\ task_log' = fail_log(tasks, task_log, scn.id)
    /\ lastCall' = [op |-> "fail", id |-> scn.id, ret |-> 0]
    /\ scn' = [scn EXCEPT !.nfail = @ + 1]
    /\ UNCHANGED <<now, calls, got, hbVars, ex, usrVars>>

\* the next row is left as it is
Seed_Skip ==
    /\ scn.pc = "open"
    /\ scn.id \in Ids(tasks)
    /\ scn' = [scn EXCEPT !.id = @ + 1, !.nfail = 0]
    /\ lastCall' = [op |-> "skip", id |-> scn.id, ret |-> 0]
    /\ UNCHANGED <<tasks, task_log, now, calls, got, hbVars, ex, usrVars>>

SeedNext ==
    \/ Seed_Open
    \/ Seed_Close
    \/ Seed_Settle
    \/ Seed_Fail
    \/ Seed_Skip

SpecSeed == SeedInit /\ [][SeedNext]_vars

\* C29: opening the Task Store inserts the five bootstrap tasks if and only
\* if the tasks table has no row; opening a store that has rows, whatever
\* their status, changes neither the tasks nor the log.
C29_SeedOnlyOnFirstOpen ==
    [][Seed_Open =>
          IF Len(tasks) = 0
          THEN /\ tasks' = _seed_initial_tasks(now)
               /\ task_log' = task_log \o seed_log
          ELSE /\ tasks' = tasks
               /\ task_log' = task_log]_vars

\* a store whose five rows are all done or cancelled has been reopened and
\* still holds those five rows
C29_Witness ==
    /\ lastCall = [op |-> "open", id |-> 5, ret |-> 5]
    /\ scn.m >= 2
    /\ Len(tasks) = 5
    /\ \A i \in Ids(tasks) : tasks[i].status \in {"done", "cancelled"}
    /\ \E i \in Ids(tasks) : tasks[i].status = "done"
    /\ \E i \in Ids(tasks) : tasks[i].status = "cancelled"

----------------------------------------------------------------------------
(* The task timeout, checked under SpecHeartbeat *)

\* C30: when asyncio.wait_for has given up on a task, the step that ends
\* the execution puts the task through fail() in the Task Store (a retry
\* scheduled with backoff, or failed), emits task_failed and clears the
\* claimed task id.
C30_TimeoutFails ==
    [][(hb.pc = "fail" /\ hb.timed_out /\ hb'.pc # "fail") =>
          /\ tasks' = fail(tasks, hb.task_id, now)
          /\ task_log' = fail_log(tasks, task_log, hb.task_id)
          /\ hb'.events = Append(hb.events, "task_failed")
          /\ _current_task_id' = 0]_vars

----------------------------------------------------------------------------
(* The life of the heartbeat: lifespan creates the task of run() and calls  *)
(* stop() at shutdown.  proc holds the position of run(), the flag          *)
(* _running, whether stop() has been called, the ticks started (counted up  *)
(* to MaxRunTicks), the ticks started after stop() and how the last tick    *)
(* ended.                                                                   *)

MaxRunTicks == 4

\* HeartbeatLoop.__init__: _running = False; create_task(heartbeat.run())
RunCreated == [scenario |-> "run", pc |-> "created", _running |-> FALSE,
               stopped |-> FALSE, ticks |-> 0, after_stop |-> 0,
               last |-> "none"]

bump(n) == IF n < MaxRunTicks THEN n + 1 ELSE n

StopInit ==
    /\ now = 0
    /\ tasks = _seed_initial_tasks(0)
    /\ task_log = seed_log
    /\ DriverInit
    /\ HeartbeatInit
    /\ ex = ExOff
    /\ turn = TurnOff
    /\ sink = SinkOff
    /\ pipe = PipeOff
    /\ proc = RunCreated

\* run() up to its first await: self._running = True; await asyncio.sleep(15)
Run_Start ==
    /\ proc.pc = "created"
    /\ proc' = [proc EXCEPT !.pc = "startup", !._running = TRUE]
    /\ UNCHANGED <<tasks, task_log, now, drvVars, hbVars, ex, turn, sink, pipe>>

\* a sleep of run() ends: while self._running, then _tick() or the return
Run_Wake ==
    /\ proc.pc \in {"startup", "sleep"}
    /\ proc' = IF proc._running
               THEN [proc EXCEPT !.pc = "tick", !.ticks = bump(@),
                                 !.after_stop = IF proc.stopped THEN bump(@)
                                                ELSE @]
               ELSE [proc EXCEPT !.pc = "exited"]
    /\ UNCHANGED <<tasks, task_log, now, drvVars, hbVars, ex, turn, sink, pipe>>

\* _tick() returns after an idle event, a task or a reflection, or raises
\* (the exception is printed), then await asyncio.sleep(HEARTBEAT_INTERVAL)
Run_TickEnds ==
    /\ proc.pc = "tick"
    /\ \E end \in {"idle", "task", "reflection", "raised"} :
          proc' = [proc EXCEPT !.pc = "sleep", !.last = end]
    /\ UNCHANGED <<tasks, task_log, now, drvVars, hbVars, ex, turn, sink, pipe>>

\* stop(): self._running = False
Run_Stop ==
    /\ proc.scenario = "run"
    /\ ~proc.stopped
    /\ proc' = [proc EXCEPT !._running = FALSE, !.stopped = TRUE]
    /\ UNCHANGED <<tasks, task_log, now, drvVars, hbVars, ex, turn, sink, pipe>>

StopNext ==
    \/ Run_Start
    \/ Run_Wake
    \/ Run_TickEnds
    \/ Run_Stop

SpecStop == StopInit /\ [][StopNext]_vars

\* C31: once stop() has been called the loop starts no new tick, at
\* whatever point of the life of run() it was called.
C31_NoTickAfterStop ==
    (proc.scenario = "run" /\ proc.stopped) => proc.after_stop = 0

----------------------------------------------------------------------------
(* Model invocations in flight.  A model call runs in a thread of           *)
(* asyncio.to_thread until the model answers; cancelling the coroutine that *)
(* awaits it does not end the thread.  proc.hb is the heartbeat: its        *)
(* position, the calls its coroutine awaits and the calls it has abandoned. *)
(* proc.req is one /chat turn: its position, whether the message holds a    *)
(* memory trigger word, the state of the quick-ack call and the calls the   *)
(* turn awaits.                                                             *)

MaxAbandoned == 2
MaxFlightTicks == 3

FlightStart ==
    [scenario |-> "flight",
     hb |-> [pc |-> "sleep", awaited |-> 0, abandoned |-> 0, ticks |-> 0],
     req |-> [pc |-> "prepare", triggers |-> FALSE, ack |-> "none",
              awaited |-> 0]]

\* the model calls of a worker that are running
in_flight(w) ==
    w.awaited + (IF "abandoned" \in DOMAIN w THEN w.abandoned ELSE 0)
    + (IF "ack" \in DOMAIN w /\ w.ack = "running" THEN 1 ELSE 0)

FlightInit ==
    /\ now = 0
    /\ tasks = _seed_initial_tasks(0)
    /\ task_log = seed_log
    /\ DriverInit
    /\ HeartbeatInit
    /\ ex = ExOff
    /\ turn = TurnOff
    /\ sink = SinkOff
    /\ pipe = PipeOff
    /\ \E tr \in BOOLEAN : proc = [FlightStart EXCEPT !.req.triggers = tr]

\* _run_task_model: await asyncio.to_thread(ollama.chat, ...) of a tick
Flight_HbCall ==
    /\ proc.hb.pc = "sleep"
    /\ proc.hb.ticks < MaxFlightTicks
    /\ proc' = [proc EXCEPT !.hb.pc = "chat", !.hb.awaited = @ + 1,
                            !.hb.ticks = @ + 1]
    /\ UNCHANGED <<tasks, task_log, now, drvVars, hbVars, ex, turn, sink, pipe>>

\* the model answers the call the heartbeat awaits; the task ends
Flight_HbReply ==
    /\ proc.hb.pc = "chat"
    /\ proc' = [proc EXCEPT !.hb.pc = "sleep", !.hb.awaited = @ - 1]
    /\ UNCHANGED <<tasks, task_log, now, drvVars, hbVars, ex, turn, sink, pipe>>

\* asyncio.wait_for cancels _run_task_model after MAX_TASK_DURATION: the
\* await is cancelled, the thread of ollama.chat runs on
Flight_HbTimeout ==
    /\ proc.hb.pc = "chat"
    /\ proc.hb.abandoned < MaxAbandoned
    /\ proc' = [proc EXCEPT !.hb.pc = "sleep", !.hb.awaited = @ - 1,
                            !.hb.abandoned = @ + 1]
    /\ UNCHANGED <<tasks, task_log, now, drvVars, hbVars, ex, turn, sink, pipe>>

\* the model answers an abandoned call: its thread ends
Flight_HbAbandonedEnds ==
    /\ proc.hb.abandoned > 0
    /\ proc' = [proc EXCEPT !.hb.abandoned = @ - 1]
    /\ UNCHANGED <<tasks, task_log, now, drvVars, hbVars, ex, turn, sink, pipe>>

\* _chat_stream: ack_task = asyncio.create_task(_quick_ack(...)), whose
\* ollama.generate runs from the next await of the turn on; then
\* memory.semantic_search (ollama.embeddings) if the message holds a trigger
\* word
Flight_ReqAck ==
    /\ proc.req.pc = "prepare"
    /\ proc' = [proc EXCEPT
                  !.req.ack = "running",
                  !.req.pc = IF proc.req.triggers THEN "search" ELSE "await_ack",
                  !.req.awaited = IF proc.req.triggers THEN @ + 1 ELSE @]
    /\ UNCHANGED <<tasks, task_log, now, drvVars, hbVars, ex, turn, sink, pipe>>

\* ollama.embeddings of semantic_search answers or raises
Flight_ReqSearched ==
    /\ proc.req.pc = "search"
    /\ proc' = [proc EXCEPT !.req.pc = "await_ack", !.req.awaited = @ - 1]
    /\ UNCHANGED <<tasks, task_log, now, drvVars, hbVars, ex, turn, sink, pipe>>

\* ollama.generate of _quick_ack answers or raises
Flight_ReqAckEnds ==
    /\ proc.req.ack = "running"
    /\ proc' = [proc EXCEPT !.req.ack = "done"]
    /\ UNCHANGED <<tasks, task_log, now, drvVars, hbVars, ex, turn, sink, pipe>>

\* ack = await ack_task, then the model call of the turn
Flight_ReqModel ==
    /\ proc.req.pc = "await_ack"
    /\ proc.req.ack = "done"
    /\ proc' = [proc EXCEPT !.req.pc = "model", !.req.awaited = @ + 1]
    /\ UNCHANGED <<tasks, task_log, now, drvVars, hbVars, ex, turn, sink, pipe>>

\* the model call of the turn answers or raises
Flight_ReqModelEnds ==
    /\ proc.req.pc = "model"
    /\ proc' = [proc EXCEPT !.req.pc = "done", !.req.awaited = @ - 1]
    /\ UNCHANGED <<tasks, task_log, now, drvVars, hbVars, ex, turn, sink, pipe>>

FlightNext ==
    \/ Flight_HbCall
    \/ Flight_HbReply
    \/ Flight_HbTimeout
    \/ Flight_HbAbandonedEnds
    \/ Flight_ReqAck
    \/ Flight_ReqSearched
    \/ Flight_ReqAckEnds
    \/ Flight_ReqModel
    \/ Flight_ReqModelEnds

SpecFlight == FlightInit /\ [][FlightNext]_vars

\* C32: the heartbeat never has two model calls running at once, and one
\* user turn never has two gateway calls running at once.
C32_OneCallInFlight ==
    proc.scenario = "flight" =>
        /\ in_flight(proc.hb) <= 1
        /\ in_flight(proc.req) <= 1

----------------------------------------------------------------------------
(* pause_running, checked under SpecStore *)

\* C35: pause_running() moves every running row to pending with
\* started_at = NULL in one step; the moved rows keep every other column,
\* the rows in other statuses, the number of rows and the task log are
\* unchanged.
C35_PauseRunningFrame ==
    [][lastCall'.op = "pause_running" =>
          /\ Len(tasks') = Len(tasks)
          /\ task_log' = task_log
          /\ \A i \in Ids(tasks) :
                IF tasks[i].status = "running"
                THEN /\ tasks'[i].status = "pending"
                     /\ tasks'[i].started_at = NULL
                     /\ tasks'[i].retry_count = tasks[i].retry_count
                     /\ tasks'[i].max_retries = tasks[i].max_retries
                     /\ tasks'[i].scheduled_at = tasks[i].scheduled_at
                     /\ tasks'[i].priority = tasks[i].priority
                     /\ tasks'[i].priority_name = tasks[i].priority_name
                     /\ tasks'[i].created_at = tasks[i].created_at
                     /\ tasks'[i].completed_at = tasks[i].completed_at
                     /\ tasks'[i].result_summary = tasks[i].result_summary
                ELSE tasks'[i] = tasks[i]]_vars

\* rows 1 and 5 were started and pause_running() has put both back
C35_Witness ==
    /\ lastCall.op = "pause_running"
    /\ \E k \in DOMAIN task_log :
          task_log[k] = [task_id |-> 1, event |-> "started"]
    /\ \E k \in DOMAIN task_log :
          task_log[k] = [task_id |-> 5, event |-> "started"]
    /\ \A i \in {1, 5} :
          tasks[i].status = "pending" /\ tasks[i].started_at = NULL

----------------------------------------------------------------------------
(* Failure after completion, checked under SpecHeartbeat *)

\* C36: fail(id) is never applied after complete(id): in the task log no
\* "retry_scheduled" or "failed" entry of a task follows a "completed" entry
\* of that task, and a row that was completed is not pending again.
C36_NoFailAfterComplete ==
    \A k \in DOMAIN task_log :
        task_log[k].event = "completed" =>
            /\ \A l \in DOMAIN task_log :
                  (l > k /\ task_log[l].task_id = task_log[k].task_id) =>
                      task_log[l].event \notin {"retry_scheduled", "failed"}
            /\ task_log[k].task_id \in Ids(tasks) =>
                  tasks[task_log[k].task_id].status \in {"done", "cancelled"}

----------------------------------------------------------------------------
(* POST /chat turns and the heartbeat pause *)

MaxChatTurns == 2
MaxPauseTicks == 2
MaxPauseNow == 90

\* seconds between two observations of the clock
PauseClockSteps == {10, 30}

\* positions of a /chat turn at which _chat_stream is suspended
ChatInProgress == {"pre", "model", "post"}

ChatIdle ==
    [scenario |-> "chat",
     pc |-> [i \in 1..MaxChatTurns |-> "none"],
     ticks |-> 0, work |-> 0, last |-> "none"]

PauseInit ==
    /\ now = 0
    /\ tasks = _seed_initial_tasks(0)
    /\ task_log = seed_log
    /\ DriverInit
    /\ HeartbeatInit
    /\ ex = ExOff
    /\ turn = TurnOff
    /\ sink = SinkOff
    /\ pipe = PipeOff
    /\ proc = ChatIdle

\* chat(): a non-empty message; pause_for_user(), then the StreamingResponse
\* over _chat_stream(msg) is returned
Pause_Chat(i) ==
    /\ proc.scenario = "chat"
    /\ proc.pc[i] = "none"
    /\ proc' = [proc EXCEPT !.pc[i] = "pre"]
    /\ _paused' = TRUE
    /\ _pause_until' = NULL
    /\ tasks' = IF _current_task_id # 0 THEN pause_running(tasks) ELSE tasks
    /\ _current_task_id' = 0
    /\ UNCHANGED <<task_log, now, drvVars, hb, chat, ex, turn, sink, pipe>>

\* _chat_stream up to the model call: the classification, the user-model
\* read and extraction, the quick ack and the memory search; none of it is
\* inside a try block
Pause_Pre(i) ==
    /\ proc.scenario = "chat"
    /\ proc.pc[i] = "pre"
    /\ \E end \in {"model", "raised"} : proc' = [proc EXCEPT !.pc[i] = end]
    /\ UNCHANGED <<tasks, task_log, now, drvVars, hbVars, ex, turn, sink, pipe>>

\* the try block: _run_model_streaming, on an exception _run_model, on a
\* second exception the generic message; stage_done and final are yielded
Pause_Model(i) ==
    /\ proc.scenario = "chat"
    /\ proc.pc[i] = "model"
    /\ proc' = [proc EXCEPT !.pc[i] = "post"]
    /\ UNCHANGED <<tasks, task_log, now, drvVars, hbVars, ex, turn, sink, pipe>>

\* after the final event: log_interaction, extract_from_exchange,
\* check_after_message, task_queue.add; the last statement of the generator
\* is resume_after_user()
Pause_Post(i) ==
    /\ proc.scenario = "chat"
    /\ proc.pc[i] = "post"
    /\ \E end \in {"ended", "raised"} :
          /\ proc' = [proc EXCEPT !.pc[i] = end]
          /\ IF end = "ended"
             THEN /\ _pause_until' = now + USER_PAUSE_COOLDOWN
                  /\ _paused' = FALSE
             ELSE UNCHANGED <<_paused, _pause_until>>
    /\ UNCHANGED <<tasks, task_log, now, drvVars, _current_task_id, hb, chat,
                   ex, turn, sink, pipe>>

\* the client goes away: the response task is cancelled and the generator
\* is closed where it is suspended
Pause_Disconnect(i) ==
    /\ proc.scenario = "chat"
    /\ proc.pc[i] \in ChatInProgress
    /\ proc' = [proc EXCEPT !.pc[i] = "closed"]
    /\ UNCHANGED <<tasks, task_log, now, drvVars, hbVars, ex, turn, sink, pipe>>

\* time passes
Pause_Clock ==
    /\ proc.scenario = "chat"
    /\ \E d \in PauseClockSteps :
          /\ now + d <= MaxPauseNow
          /\ now' = now + d
    /\ UNCHANGED <<tasks, task_log, drvVars, hbVars, ex, usrVars>>

\* _tick(): an idle event while is_paused(), background work otherwise
Pause_Tick ==
    /\ proc.scenario = "chat"
    /\ proc.ticks < MaxPauseTicks
    /\ proc' = IF is_paused(_paused, _pause_until, now)
               THEN [proc EXCEPT !.ticks = @ + 1, !.last = "idle"]
               ELSE [proc EXCEPT !.ticks = @ + 1, !.last = "work",
                                 !.work = @ + 1]
    /\ UNCHANGED <<tasks, task_log, now, drvVars, hbVars, ex, turn, sink, pipe>>

Pause_ChatAny == \E i \in 1..MaxChatTurns : Pause_Chat(i)
Pause_PreAny == \E i \in 1..MaxChatTurns : Pause_Pre(i)
Pause_ModelAny == \E i \in 1..MaxChatTurns : Pause_Model(i)
Pause_PostAny == \E i \in 1..MaxChatTurns : Pause_Post(i)
Pause_DisconnectAny == \E i \in 1..MaxChatTurns : Pause_Disconnect(i)

PauseNext ==
    \/ Pause_ChatAny
    \/ Pause_PreAny
    \/ Pause_ModelAny
    \/ Pause_PostAny
    \/ Pause_DisconnectAny
    \/ Pause_Clock
    \/ Pause_Tick

SpecPause == PauseInit /\ [][PauseNext]_vars

\* every step of a turn that is under way is taken, and the heartbeat ticks
SpecPauseFair ==
    /\ SpecPause
    /\ \A i \in 1..MaxChatTurns :
          /\ WF_vars(Pause_Pre(i))
          /\ WF_vars(Pause_Model(i))
          /\ WF_vars(Pause_Post(i))
    /\ WF_vars(Pause_Clock)
    /\ WF_vars(Pause_Tick)

\* C37: while a /chat turn is in progress the heartbeat starts no background
\* work: a tick that starts work finds no turn between its pause_for_user()
\* and the end of its stream.
C37_NoWorkDuringTurn ==
    [][(proc.scenario = "chat" /\ proc'.work > proc.work) =>
          \A i \in 1..MaxChatTurns : proc.pc[i] \notin ChatInProgress]_vars

\* C38: every /chat turn that called pause_for_user() reaches
\* resume_after_user(), the last statement of its stream.
C38_ResumeFollowsPause ==
    \A i \in 1..MaxChatTurns :
        (proc.scenario = "chat" /\ proc.pc[i] # "none") ~>
            (proc.pc[i] = "ended")

----------------------------------------------------------------------------
(* The shims of the pre-pipeline called from several threads *)

MaxShimThreads == 2

ShimFns == {"classify_intent", "rewrite_prompt", "get_extracted_facts"}

\* what ollama.generate does for a shim's call of the pipeline
ShimReplies ==
    {r \in PipeReplies :
        r.kind = "raise" \/ (r.kind = "json" /\ r.rewritten = 3
                                             /\ r.facts = "list")}

\* a thread that has not called a shim
ShimIdle == [pc |-> "idle", fn |-> "none", msg |-> None, ret |-> NoPre,
             ret_for |-> None]

\* no shim called; cache_for is the input _last_pre was computed from
ShimStart ==
    [scenario |-> "shim",
     th |-> [i \in 1..MaxShimThreads |-> ShimIdle],
     cache_for |-> None]

ShimInit ==
    /\ now = 0
    /\ tasks = _seed_initial_tasks(0)
    /\ task_log = seed_log
    /\ DriverInit
    /\ HeartbeatInit
    /\ ex = ExOff
    /\ turn = TurnOff
    /\ sink = SinkOff
    /\ pipe = PipeOff
    /\ proc = ShimStart

\* a thread enters classify_intent, rewrite_prompt or get_extracted_facts
Shim_Call(i) ==
    /\ proc.scenario = "shim"
    /\ proc.th[i].pc = "idle"
    /\ \E fn \in ShimFns, m \in PipeMessages :
          proc' = [proc EXCEPT !.th[i] = [@ EXCEPT !.pc = "check", !.fn = fn,
                                                   !.msg = m]]
    /\ UNCHANGED <<tasks, task_log, now, drvVars, hbVars, ex, turn, sink, pipe>>

\* if _last_input != user_input:
Shim_Check(i) ==
    /\ proc.scenario = "shim"
    /\ proc.th[i].pc = "check"
    /\ proc' = [proc EXCEPT !.th[i].pc =
                  IF pipe._last_input # proc.th[i].msg THEN "run" ELSE "read"]
    /\ UNCHANGED <<tasks, task_log, now, drvVars, hbVars, ex, turn, sink, pipe>>

\* _last_pre = run_pre_pipeline(user_input): the call returns and its result
\* is stored
Shim_StorePre(i) ==
    /\ proc.scenario = "shim"
    /\ proc.th[i].pc = "run"
    /\ \E reply \in ShimReplies :
          pipe' = [pipe EXCEPT
                     !._last_pre = run_pre_pipeline(proc.th[i].msg, reply),
                     !.generate = @ + 1]
    /\ proc' = [proc EXCEPT !.th[i].pc = "store_input",
                            !.cache_for = proc.th[i].msg]
    /\ UNCHANGED <<tasks, task_log, now, drvVars, hbVars, ex, turn, sink>>

\* _last_input = user_input
Shim_StoreInput(i) ==
    /\ proc.scenario = "shim"
    /\ proc.th[i].pc = "store_input"
    /\ pipe' = [pipe EXCEPT !._last_input = proc.th[i].msg]
    /\ proc' = [proc EXCEPT !.th[i].pc = "read"]
    /\ UNCHANGED <<tasks, task_log, now, drvVars, hbVars, ex, turn, sink>>

\* the return statement: the slice of _last_pre as it is now
Shim_Return(i) ==
    /\ proc.scenario = "shim"
    /\ proc.th[i].pc = "read"
    /\ proc' = [proc EXCEPT !.th[i] =
                  [@ EXCEPT !.pc = "done",
                            !.ret = pre_slice(proc.th[i].fn, pipe._last_pre),
                            !.ret_for = proc.cache_for]]
    /\ UNCHANGED <<tasks, task_log, now, drvVars, hbVars, ex, turn, sink, pipe>>

Shim_CallAny == \E i \in 1..MaxShimThreads : Shim_Call(i)
Shim_CheckAny == \E i \in 1..MaxShimThreads : Shim_Check(i)
Shim_StorePreAny == \E i \in 1..MaxShimThreads : Shim_StorePre(i)
Shim_StoreInputAny == \E i \in 1..MaxShimThreads : Shim_StoreInput(i)
Shim_ReturnAny == \E i \in 1..MaxShimThreads : Shim_Return(i)

ShimNext ==
    \/ Shim_CallAny
    \/ Shim_CheckAny
    \/ Shim_StorePreAny
    \/ Shim_StoreInputAny
    \/ Shim_ReturnAny

SpecShim == ShimInit /\ [][ShimNext]_vars

\* C39: with shims running in several threads, a call that has returned
\* returned the slice of a result computed for its own input, and once no
\* call is between its two stores _last_pre is the result computed for
\* _last_input.
C39_Quiescent ==
    \A i \in 1..MaxShimThreads : proc.th[i].pc \in {"idle", "check", "done"}

C39_LastWriterWinsHarmless ==
    proc.scenario = "shim" =>
        /\ \A i \in 1..MaxShimThreads :
              proc.th[i].pc = "done" => proc.th[i].ret_for = proc.th[i].msg
        /\ (C39_Quiescent /\ pipe._last_input # None) =>
              proc.cache_for = pipe._last_input

----------------------------------------------------------------------------
(* The execution path of /chat, checked under SpecExecutor *)

\* _chat_stream: final = "Something went wrong ..." unless a path returned a
\* result, whose output it then is
chat_final(e) == IF e.result = NoResult THEN "apology" ELSE e.result.output

ChatLoops == {"_run_model_streaming", "_run_model"}

====
